---- MODULE Spec2Model ----
(***************************************************************************)
(* A model of munkipkg (src/munkipkg.py): the build-info resolver, the     *)
(* Bom.txt reconciler (sync_from_bom_info), the build pipeline and the     *)
(* command dispatch of main().                                             *)
(*                                                                         *)
(* Python strings whose characters the code inspects are sequences of      *)
(* one-character strings; enumerated values the code only compares whole   *)
(* are TLA+ strings.                                                       *)
(***************************************************************************)
EXTENDS Integers, Sequences, FiniteSets, TLC

VARIABLES
  mode,          \* the command main() dispatches: "info", "sync", "build", "import", "create"
  files,         \* build-info files of the project directory: extension -> content
  options,       \* the parsed command-line options
  euid,          \* os.geteuid() of the process
  umask,         \* the process's file mode creation mask
  bom,           \* Bom.txt: the sequence of its lines, or NoFile when it is absent
  tree,          \* the payload tree: payload path -> node
  tree0,         \* the payload tree when the current run started
  pc,            \* position of the running command
  pos,           \* number of lines of Bom.txt read so far
  returncode,    \* sync_from_bom_info's returncode; the value the command returns
  changes_made,  \* sync_from_bom_info's changes_made
  log,           \* what the current run did and printed, in order
  run,           \* number of the current invocation of the command
  results,       \* the values returned by the earlier invocations
  result,        \* the value main() passes to sys.exit
  exit_status,   \* the process exit status, -1 while the process runs
  read_result,   \* what read_build_info returned or raised
  info_result,   \* what get_build_info returned or raised; build()'s build_info
  fs,            \* the project directory but for the payload tree, and the temporary directory
  notary,        \* wait_for_notarization's counter and sleep_time, and the last status polled
  arguments,     \* the number of positional arguments on the command line
  package,       \* the package --import names
  env            \* the interpreter: the Python major version, and YAML_INSTALLED

projVars == <<files, options, euid, umask, arguments, package, env>>
syncVars == <<bom, tree, tree0, pos, returncode, changes_made>>
mainVars == <<mode, pc, log, run, results, result, exit_status>>
infoVars == <<read_result, info_result>>
buildVars == <<fs, notary>>

-----------------------------------------------------------------------------
(* Python string and path primitives                                       *)

StartsWith(s, p) == Len(s) >= Len(p) /\ SubSeq(s, 1, Len(p)) = p

EndsWith(s, p) == Len(s) >= Len(p) /\ SubSeq(s, Len(s) - Len(p) + 1, Len(s)) = p

\* s[n:]
Drop(s, n) == SubSeq(s, n + 1, Len(s))

\* s[-n:]
LastN(s, n) == IF Len(s) <= n THEN s ELSE SubSeq(s, Len(s) - n + 1, Len(s))

\* s.find(c) + 1: the first index of character c, 0 when there is none
IndexOf(s, c) ==
  IF \E i \in 1..Len(s) : s[i] = c
  THEN CHOOSE i \in 1..Len(s) : s[i] = c /\ \A j \in 1..(i - 1) : s[j] # c
  ELSE 0

\* s.rfind(c) + 1
LastIndexOf(s, c) ==
  IF \E i \in 1..Len(s) : s[i] = c
  THEN CHOOSE i \in 1..Len(s) : s[i] = c /\ \A j \in (i + 1)..Len(s) : s[j] # c
  ELSE 0

RECURSIVE RStrip(_, _)
RStrip(s, c) ==
  IF s # <<>> /\ s[Len(s)] = c THEN RStrip(SubSeq(s, 1, Len(s) - 1), c) ELSE s

RECURSIVE Split(_, _)
Split(s, c) ==
  LET i == IndexOf(s, c)
  IN IF i = 0 THEN <<s>> ELSE <<SubSeq(s, 1, i - 1)>> \o Split(Drop(s, i), c)

\* s.partition(c): (head, sep, tail)
Partition(s, c) ==
  LET i == IndexOf(s, c)
  IN IF i = 0 THEN <<s, <<>>, <<>>>> ELSE <<SubSeq(s, 1, i - 1), <<c>>, Drop(s, i)>>

\* sub in s
Contains(s, sub) ==
  \E i \in 1..(Len(s) - Len(sub) + 1) : SubSeq(s, i, i + Len(sub) - 1) = sub

\* s.replace(old, new): every occurrence, left to right
RECURSIVE Replace(_, _, _)
Replace(s, old, new) ==
  IF s = <<>> THEN <<>>
  ELSE IF StartsWith(s, old) THEN new \o Replace(Drop(s, Len(old)), old, new)
  ELSE <<Head(s)>> \o Replace(Tail(s), old, new)

\* s.replace(c, "")
RemoveChar(s, c) == SelectSeq(s, LAMBDA x : x # c)

\* os.path.basename
Basename(p) == Drop(p, LastIndexOf(p, "/"))

\* os.path.dirname
Dirname(p) ==
  LET head == SubSeq(p, 1, LastIndexOf(p, "/"))
  IN IF head # <<>> /\ \E i \in 1..Len(head) : head[i] # "/"
     THEN RStrip(head, "/") ELSE head

\* os.path.join(a, b)
Join(a, b) ==
  IF StartsWith(b, <<"/">>) THEN b
  ELSE IF a = <<>> \/ EndsWith(a, <<"/">>) THEN a \o b
  ELSE a \o <<"/">> \o b

DecDigits == <<"0", "1", "2", "3", "4", "5", "6", "7", "8", "9">>

DigitValue(c) == (CHOOSE i \in 1..10 : DecDigits[i] = c) - 1

IsDigits(s, base) ==
  /\ s # <<>>
  /\ \A i \in 1..Len(s) : \E d \in 1..base : DecDigits[d] = s[i]

\* the value of a digit string in the given base
RECURSIVE DigitsValue(_, _)
DigitsValue(s, base) ==
  IF s = <<>> THEN 0
  ELSE DigitsValue(SubSeq(s, 1, Len(s) - 1), base) * base + DigitValue(s[Len(s)])

\* str(n) for a non-negative int
RECURSIVE IntStr(_)
IntStr(n) ==
  IF n < 10 THEN <<DecDigits[n + 1]>> ELSE IntStr(n \div 10) \o <<DecDigits[(n % 10) + 1]>>

\* m & ~k on non-negative ints
RECURSIVE AndNot(_, _)
AndNot(m, k) ==
  IF m = 0 THEN 0
  ELSE (IF m % 2 = 1 /\ k % 2 = 0 THEN 1 ELSE 0) + 2 * AndNot(m \div 2, k \div 2)

-----------------------------------------------------------------------------
(* Values of a build-info file.  A value carries its Python type.         *)

StrV(s) == [t |-> "str", v |-> s]
BoolV(b) == [t |-> "bool", v |-> b]
IntV(n) == [t |-> "int", v |-> n]
\* a float, as its integer part and the digits of its shortest repr's fraction
FloatV(i, f) == [t |-> "float", v |-> <<i, f>>]
\* a nested dict, as the set of its keys and its staple_timeout (0 when absent)
DictV(keys, timeout) == [t |-> "dict", v |-> <<keys, timeout>>]

\* str(value)
PyStr(val) ==
  CASE val.t = "str" -> val.v
    [] val.t = "int" -> IntStr(val.v)
    [] val.t = "float" -> IntStr(val.v[1]) \o <<".">> \o val.v[2]
    [] val.t = "bool" ->
         IF val.v THEN <<"T", "r", "u", "e">> ELSE <<"F", "a", "l", "s", "e">>
    [] val.t = "bytes" ->
         IF env.python = 3 THEN <<"b", "'">> \o val.v \o <<"'">> ELSE val.v
    [] OTHER -> <<"{", "}">>

VERSION_PLACEHOLDER == <<"$", "{", "v", "e", "r", "s", "i", "o", "n", "}">>

NoInfo == [none |-> TRUE]

project_dir == <<"a", " ", "b">>

BUILD_INFO_FILE ==
  <<"b", "u", "i", "l", "d", "-", "i", "n", "f", "o">>

BOM_TEXT_FILE == <<"B", "o", "m", ".", "t", "x", "t">>

\* value in [True, False]: Python's == makes 1 and 0 equal to True and False
InBools(val) ==
  \/ val.t = "bool"
  \/ val.t = "int" /\ val.v \in {0, 1}

valid_values(key, val) ==
  CASE key = "ownership" ->
         val.t = "str" /\ val.v \in {"recommended", "preserve", "preserve-other"}
    [] key = "postinstall_action" ->
         val.t = "str" /\ val.v \in {"none", "logout", "restart"}
    [] OTHER -> InBools(val)

enum_keys ==
  <<"ownership", "postinstall_action", "suppress_bundle_relocation",
    "distribution_style", "preserve_xattr">>

\* the keys validate_build_info_keys finds illegal, in its order of iteration
illegal_keys(build_info) ==
  SelectSeq(enum_keys,
            LAMBDA key : key \in DOMAIN build_info
                         /\ ~valid_values(key, build_info[key]))

\* validate_build_info_keys: False, with an ERROR printed, at the first illegal key
validate_build_info_keys(build_info) == illegal_keys(build_info) = <<>>

validate_stderr(build_info) ==
  IF validate_build_info_keys(build_info) THEN <<>>
  ELSE <<[msg |-> "illegal value", key |-> illegal_keys(build_info)[1]]>>

\* a faulty variant: the version substituted as it is, not stringified
templated_name_raw(name, version) ==
  Replace(name, VERSION_PLACEHOLDER, IF version.t = "str" THEN version.v ELSE <<version.v>>)

\* the name read_build_info returns: every ${version} replaced by str(version)
templated_name(name, version) == Replace(name, VERSION_PLACEHOLDER, PyStr(version))

Raised(kind, msg, stderr) ==
  [kind |-> kind, msg |-> msg, info |-> NoInfo, stderr |-> stderr]

Returned(info, stderr) ==
  [kind |-> "ok", msg |-> "", info |-> info, stderr |-> stderr]

\* read_build_info(build-info.<ext>)
read_build_info(ext) ==
  IF ext \notin DOMAIN files THEN Raised("IOError", "no such file", <<>>)
  ELSE LET content == files[ext]
           build_info == content.data
           stderr == validate_stderr(build_info)
       IN IF ~content.valid
          THEN Raised("BuildError", "not a valid file", <<>>)
          ELSE IF "name" \notin DOMAIN build_info
          THEN Raised("KeyError", "name", stderr)
          ELSE IF Contains(build_info.name, VERSION_PLACEHOLDER)
          THEN IF "version" \notin DOMAIN build_info
               THEN Raised("KeyError", "version", stderr)
               ELSE Returned(
                      [build_info EXCEPT
                         !.name = templated_name(build_info.name, build_info.version)],
                      stderr)
          ELSE Returned(build_info, stderr)

default_build_info ==
  LET basename == RemoveChar(Basename(RStrip(project_dir, "/")), " ")
  IN [ownership |-> StrV("recommended"),
      suppress_bundle_relocation |-> BoolV(TRUE),
      postinstall_action |-> StrV("none"),
      preserve_xattr |-> BoolV(FALSE),
      name |-> basename \o <<"-">> \o VERSION_PLACEHOLDER \o <<".", "p", "k", "g">>,
      identifier |-> <<"c", "o", "m", ".", "g", "i", "t", "h", "u", "b", ".",
                       "m", "u", "n", "k", "i", ".", "p", "k", "g", ".">> \o basename,
      install_location |-> <<"/">>,
      version |-> StrV(<<"1", ".", "0">>),
      distribution_style |-> BoolV(FALSE)]

supported_keys ==
  {"name", "identifier", "version", "ownership", "install_location",
   "postinstall_action", "preserve_xattr", "suppress_bundle_relocation",
   "distribution_style", "signing_info", "notarization_info"}

file_types == <<"plist", "json", "yaml", "yml">>

\* the extensions of the build-info files that exist, in probing order
found_types == SelectSeq(file_types, LAMBDA ext : ext \in DOMAIN files)

\* a faulty variant: the probing stops at the first file it finds
multiple_check_first == FALSE

\* the probing loop raises as soon as it meets a second file
multiple_check == Len(found_types) > 1

\* file_type after the probing, or the type the format option names; "" is None
file_type ==
  IF ~options.yaml /\ ~options.json
  THEN IF found_types = <<>> THEN "" ELSE found_types[1]
  ELSE IF options.yaml THEN "yaml" ELSE "json"

\* the layering of the file's supported keys over the defaults
merge_info(info, file_info) ==
  LET over == DOMAIN file_info \cap supported_keys
  IN [key \in DOMAIN info \cup over |->
        IF key \in over THEN file_info[key] ELSE info[key]]

get_build_info ==
  LET info == [key \in DOMAIN default_build_info \cup {"project_dir"} |->
                 IF key = "project_dir" THEN project_dir ELSE default_build_info[key]]
  IN IF ~options.yaml /\ ~options.json /\ multiple_check
     THEN Raised("MunkiPkgError", "Multiple build-info files found!", <<>>)
     ELSE IF file_type # "" /\ file_type \in DOMAIN files
     THEN LET file_info == read_build_info(file_type)
          IN IF file_info.kind = "ok"
             THEN Returned(merge_info(info, file_info.info), file_info.stderr)
             ELSE file_info
     ELSE Raised("MunkiPkgError", "No build-info file found!", <<>>)

-----------------------------------------------------------------------------
(* The payload tree and the file-system calls the reconciler makes         *)

payload_dir == Join(project_dir, <<"p", "a", "y", "l", "o", "a", "d">>)

Absent == [kind |-> "none", mode |-> 0, uid |-> 0, gid |-> 0]

Node(kind, perm, uid, gid) == [kind |-> kind, mode |-> perm, uid |-> uid, gid |-> gid]

\* the key of a payload path in the tree: the path below payload_dir
rel(p) == Drop(p, Len(payload_dir) + 1)

\* os.path.lexists
lexists(tr, p) == rel(p) \in DOMAIN tr /\ tr[rel(p)].kind # "none"

\* whether the process may write into directory p (owner and other classes)
may_write(tr, p) ==
  \/ euid = 0
  \/ tr[rel(p)].uid = euid /\ (tr[rel(p)].mode \div 128) % 2 = 1
  \/ tr[rel(p)].uid # euid /\ (tr[rel(p)].mode \div 2) % 2 = 1

\* os.lchmod succeeds for the owner and for root, else raises OSError (EPERM)
may_chmod(tr, p) == euid = 0 \/ tr[rel(p)].uid = euid

\* os.mkdir succeeds when the parent is a directory the process may write into
may_mkdir(tr, p) ==
  /\ rel(Dirname(p)) \in DOMAIN tr
  /\ rel(p) \in DOMAIN tr
  /\ tr[rel(Dirname(p))].kind = "dir"
  /\ may_write(tr, Dirname(p))

\* the permission bits os.mkdir(path, mode) gives: the umask is masked out
mkdir_mode(desired_mode) == AndNot(desired_mode, umask)

\* os.mkdir: the new directory gets the process's uid and its parent's gid
mkdir(tr, p, desired_mode) ==
  [tr EXCEPT ![rel(p)] =
     Node("dir", mkdir_mode(desired_mode), euid, tr[rel(Dirname(p))].gid)]

lchmod(tr, p, desired_mode) == [tr EXCEPT ![rel(p)].mode = desired_mode]

\* a faulty variant: owner and group passed in the wrong order
lchown_swapped(tr, p, desired_user, desired_group) ==
  [tr EXCEPT ![rel(p)].uid = desired_group, ![rel(p)].gid = desired_user]

lchown(tr, p, desired_user, desired_group) ==
  [tr EXCEPT ![rel(p)].uid = desired_user, ![rel(p)].gid = desired_group]

N_root == rel(payload_dir)
N_d == <<"d">>
N_d_f == <<"d", "/", "f">>
N_d_sidecar == <<"d", "/", ".", "_", "f">>
N_f == <<"f">>

Nodes == {N_root, N_d, N_d_f, N_d_sidecar, N_f}

\* the payload tree with the paths of shape, as owner's checkout or expansion leaves it
TreeOf(shape, owner) ==
  [p \in Nodes |->
     IF p \notin shape THEN Absent
     ELSE IF p \in {N_root, N_d}
     THEN Node("dir", IF owner = 0 THEN 509 ELSE 493, owner, IF owner = 0 THEN 0 ELSE 20)
     ELSE Node("file", IF owner = 0 THEN 493 ELSE 420, owner, IF owner = 0 THEN 0 ELSE 20)]

-----------------------------------------------------------------------------
(* sync_from_bom_info                                                      *)

running_as_root == euid = 0

\* a faulty variant: the permission bits taken from the first four digits of the mode
decode_leading_mode(item) ==
  LET parts == Split(RStrip(item, "\n"), "\t")
      path == IF StartsWith(parts[1], <<".", "/">>) THEN Drop(parts[1], 2) ELSE parts[1]
      FirstN(s, n) == IF Len(s) <= n THEN s ELSE SubSeq(s, 1, n)
      failed(kind) ==
        [kind |-> kind, path |-> path, full_mode |-> <<>>,
         desired_user |-> 0, desired_group |-> 0, desired_mode |-> 0]
  IN IF Len(parts) < 3 THEN failed("IndexError")
     ELSE LET full_mode == parts[2]
              user_group == Partition(parts[3], "/")
          IN IF \/ ~IsDigits(user_group[1], 10)
                \/ ~IsDigits(user_group[3], 10)
                \/ ~IsDigits(FirstN(full_mode, 4), 8)
             THEN failed("ValueError")
             ELSE [kind |-> "ok", path |-> path, full_mode |-> full_mode,
                   desired_user |-> DigitsValue(user_group[1], 10),
                   desired_group |-> DigitsValue(user_group[3], 10),
                   desired_mode |-> DigitsValue(FirstN(full_mode, 4), 8)]

\* one line of Bom.txt decoded as lines 383-391 do; kind is the exception raised
decode(item) ==
  LET parts == Split(RStrip(item, "\n"), "\t")
      path == IF StartsWith(parts[1], <<".", "/">>) THEN Drop(parts[1], 2) ELSE parts[1]
      failed(kind) ==
        [kind |-> kind, path |-> path, full_mode |-> <<>>,
         desired_user |-> 0, desired_group |-> 0, desired_mode |-> 0]
  IN IF Len(parts) < 3 THEN failed("IndexError")
     ELSE LET full_mode == parts[2]
              user_group == Partition(parts[3], "/")
          IN IF \/ ~IsDigits(user_group[1], 10)
                \/ ~IsDigits(user_group[3], 10)
                \/ ~IsDigits(LastN(full_mode, 4), 8)
             THEN failed("ValueError")
             ELSE [kind |-> "ok", path |-> path, full_mode |-> full_mode,
                   desired_user |-> DigitsValue(user_group[1], 10),
                   desired_group |-> DigitsValue(user_group[3], 10),
                   desired_mode |-> DigitsValue(LastN(full_mode, 4), 8)]

payload_path(path) == Join(payload_dir, path)

\* a faulty variant: the prefix looked for at the start of the whole path
is_sidecar_of_path(path) == StartsWith(path, <<".", "_">>)

\* basename.startswith('._')
is_sidecar(path) == StartsWith(Basename(path), <<".", "_">>)

otherfile(path) == Join(Dirname(path), Drop(Basename(path), 2))

\* a faulty variant: only a mode field wider than the four permission digits can say
\* directory
is_directory_typed(full_mode) == Len(full_mode) > 4 /\ StartsWith(full_mode, <<"4">>)

\* full_mode.startswith('4')
is_directory(full_mode) == StartsWith(full_mode, <<"4">>)

Event(op, path, arg, line) == [op |-> op, path |-> path, arg |-> arg, line |-> line]

Effect(tr, events, changes, outcome) ==
  [tree |-> tr, events |-> events, changes |-> changes, outcome |-> outcome]

\* lines 394-402: the sidecar entry is reported and skipped
sidecar_step(e, tr, line) ==
  Effect(tr, <<Event("warn_xattr", e.path, otherfile(e.path), line)>>, 0, "continue")

\* a faulty variant: the owner and the group are counted one change each
chown_step_each(e, tr, line) ==
  LET p == payload_path(e.path)
  IN IF running_as_root
        /\ (tr[rel(p)].uid # e.desired_user \/ tr[rel(p)].gid # e.desired_group)
     THEN Effect(lchown(tr, p, e.desired_user, e.desired_group),
                 <<Event("chown", p, <<e.desired_user, e.desired_group>>, line)>>,
                 (IF tr[rel(p)].uid # e.desired_user THEN 1 ELSE 0)
                   + (IF tr[rel(p)].gid # e.desired_group THEN 1 ELSE 0),
                 "continue")
     ELSE Effect(tr, <<>>, 0, "continue")

\* lines 426-436: owner and group, when running as root
chown_step(e, tr, line) ==
  LET p == payload_path(e.path)
  IN IF running_as_root
        /\ (tr[rel(p)].uid # e.desired_user \/ tr[rel(p)].gid # e.desired_group)
     THEN Effect(lchown(tr, p, e.desired_user, e.desired_group),
                 <<Event("chown", p, <<e.desired_user, e.desired_group>>, line)>>,
                 1, "continue")
     ELSE Effect(tr, <<>>, 0, "continue")

\* lines 403-411, then 426-436: the path exists
exists_step(e, tr, line) ==
  LET p == payload_path(e.path)
  IN IF tr[rel(p)].mode # e.desired_mode
     THEN IF may_chmod(tr, p)
          THEN LET own == chown_step(e, lchmod(tr, p, e.desired_mode), line)
               IN Effect(own.tree,
                         <<Event("chmod", p, <<e.desired_mode>>, line)>> \o own.events,
                         1 + own.changes, "continue")
          ELSE Effect(tr, <<Event("error_exc", p, <<"OSError">>, line)>>, 0, "OSError")
     ELSE chown_step(e, tr, line)

\* lines 412-419: the path is missing and the entry is a directory
mkdir_step(e, tr, line) ==
  LET p == payload_path(e.path)
  IN IF may_mkdir(tr, p)
     THEN Effect(mkdir(tr, p, e.desired_mode),
                 <<Event("mkdir", p, <<e.desired_mode>>, line)>>, 1, "continue")
     ELSE Effect(tr, <<Event("error_exc", p, <<"OSError">>, line)>>, 0, "OSError")

\* a faulty variant: the error is printed and the loop goes on
missing_step_continues(e, tr, line) ==
  Effect(tr, <<Event("error_missing", payload_path(e.path), <<>>, line)>>, 0, "continue")

\* lines 420-425: the path is missing and the entry is no directory
missing_step(e, tr, line) ==
  Effect(tr, <<Event("error_missing", payload_path(e.path), <<>>, line)>>, 0, "break")

\* lines 392-436: one decoded entry applied to the tree
apply_entry(e, tr, line) ==
  IF is_sidecar(e.path) THEN sidecar_step(e, tr, line)
  ELSE IF lexists(tr, payload_path(e.path)) THEN exists_step(e, tr, line)
  ELSE IF is_directory(e.full_mode) THEN mkdir_step(e, tr, line)
  ELSE missing_step(e, tr, line)

\* lines 376-440: one iteration of the while loop on line number `line`
read_line(item, tr, line) ==
  IF item = <<"\n">> THEN Effect(tr, <<>>, 0, "continue")
  ELSE LET e == decode(item)
       IN CASE e.kind = "ok" -> apply_entry(e, tr, line)
            [] e.kind = "ValueError" ->
                 Effect(tr, <<Event("error_exc", <<>>, <<"ValueError">>, line)>>,
                        0, "ValueError")
            [] OTHER -> Effect(tr, <<>>, 0, "IndexError")

\* lines 355-358: the build-info, the defaults when it cannot be resolved
sync_build_info ==
  IF get_build_info.kind \in {"MunkiPkgError", "BuildError"}
  THEN Returned(default_build_info, get_build_info.stderr)
  ELSE get_build_info

\* where sync_from_bom_info returns to: main, or the import that called it
after_sync == IF mode = "import" THEN "import_synced" ELSE "returned"

\* a faulty variant: without root a build-info that asks to preserve ownership ends the sync
SyncStart_blocked ==
  /\ pc = "sync"
  /\ tree0' = tree
  /\ pos' = 0
  /\ changes_made' = 0
  /\ IF sync_build_info.kind # "ok"
     THEN /\ pc' = "crashed"
          /\ log' = log
          /\ UNCHANGED <<returncode, result>>
     ELSE IF ~bom.exists
     THEN /\ pc' = after_sync
          /\ returncode' = -1
          /\ result' = IntV(-1)
          /\ log' = log \o <<Event("error_nobom", BOM_TEXT_FILE, <<>>, 0)>>
     ELSE IF sync_build_info.info.ownership # StrV("recommended") /\ ~running_as_root
     THEN /\ pc' = after_sync
          /\ returncode' = -1
          /\ result' = IntV(-1)
          /\ log' = log \o <<Event("warn_sudo", <<>>, <<>>, 0)>>
     ELSE /\ pc' = "loop"
          /\ returncode' = 0
          /\ UNCHANGED result
          /\ log' = log
  /\ UNCHANGED <<mode, run, results, exit_status, bom, tree>>
  /\ UNCHANGED <<projVars, infoVars, buildVars>>

\* lines 353-372
SyncStart ==
  /\ pc = "sync"
  /\ tree0' = tree
  /\ pos' = 0
  /\ changes_made' = 0
  /\ IF sync_build_info.kind # "ok"
     THEN \* KeyError from read_build_info is not caught
          /\ pc' = "crashed"
          /\ log' = log
          /\ UNCHANGED <<returncode, result>>
     ELSE IF ~bom.exists
     THEN /\ pc' = after_sync
          /\ returncode' = -1
          /\ result' = IntV(-1)
          /\ log' = log \o <<Event("error_nobom", BOM_TEXT_FILE, <<>>, 0)>>
     ELSE /\ pc' = "loop"
          /\ returncode' = 0
          /\ UNCHANGED result
          /\ log' = log \o
               (IF sync_build_info.info.ownership # StrV("recommended")
                   /\ ~running_as_root
                THEN <<Event("warn_sudo", <<>>, <<>>, 0)>> ELSE <<>>)
  /\ UNCHANGED <<mode, run, results, exit_status, bom, tree>>
  /\ UNCHANGED <<projVars, infoVars, buildVars>>

\* a faulty variant: an abort puts the tree back as it was when the run started
SyncEntry_rollback ==
  /\ pc = "loop"
  /\ pos < Len(bom.lines)
  /\ \E eff \in {read_line(bom.lines[pos + 1], tree, pos + 1)} :
        /\ pos' = pos + 1
        /\ tree' = IF eff.outcome = "continue" THEN eff.tree ELSE tree0
        /\ log' = log \o eff.events
        /\ changes_made' = changes_made + eff.changes
        /\ CASE eff.outcome = "continue" ->
                  /\ pc' = "loop"
                  /\ UNCHANGED <<returncode, result>>
             [] eff.outcome = "break" ->
                  \* returncode = -1; lines 442-447 print nothing
                  /\ pc' = after_sync
                  /\ returncode' = -1
                  /\ result' = IntV(-1)
             [] eff.outcome \in {"OSError", "ValueError"} ->
                  \* lines 438-440
                  /\ pc' = after_sync
                  /\ result' = IntV(-1)
                  /\ UNCHANGED returncode
             [] OTHER ->
                  \* IndexError is not caught
                  /\ pc' = "crashed"
                  /\ UNCHANGED <<returncode, result>>
  /\ UNCHANGED <<mode, run, results, exit_status, bom, tree0>>
  /\ UNCHANGED <<projVars, infoVars, buildVars>>

\* lines 376-440: readline returned a line
SyncEntry ==
  /\ pc = "loop"
  /\ pos < Len(bom.lines)
  /\ \E eff \in {read_line(bom.lines[pos + 1], tree, pos + 1)} :
        /\ pos' = pos + 1
        /\ tree' = eff.tree
        /\ log' = log \o eff.events
        /\ changes_made' = changes_made + eff.changes
        /\ CASE eff.outcome = "continue" ->
                  /\ pc' = "loop"
                  /\ UNCHANGED <<returncode, result>>
             [] eff.outcome = "break" ->
                  \* returncode = -1; lines 442-447 print nothing
                  /\ pc' = after_sync
                  /\ returncode' = -1
                  /\ result' = IntV(-1)
             [] eff.outcome \in {"OSError", "ValueError"} ->
                  \* lines 438-440
                  /\ pc' = after_sync
                  /\ result' = IntV(-1)
                  /\ UNCHANGED returncode
             [] OTHER ->
                  \* IndexError is not caught
                  /\ pc' = "crashed"
                  /\ UNCHANGED <<returncode, result>>
  /\ UNCHANGED <<mode, run, results, exit_status, bom, tree0>>
  /\ UNCHANGED <<projVars, infoVars, buildVars>>

\* readline returned '': lines 378-379, then 442-447
SyncEOF ==
  /\ pc = "loop"
  /\ pos = Len(bom.lines)
  /\ pc' = after_sync
  /\ result' = IntV(returncode)
  /\ log' = log \o
       (IF returncode = 0 /\ ~options.quiet
        THEN <<Event(IF changes_made # 0 THEN "sync_successful" ELSE "no_changes_needed",
                     <<>>, <<>>, 0)>>
        ELSE <<>>)
  /\ UNCHANGED <<mode, run, results, exit_status, bom, tree, tree0, pos,
                 returncode, changes_made>>
  /\ UNCHANGED <<projVars, infoVars, buildVars>>

-----------------------------------------------------------------------------
(* main                                                                    *)

\* the exit status sys.exit(value) gives: False is 0, an int is taken modulo 256
sys_exit(value) ==
  IF value.t = "bool" THEN (IF value.v THEN 1 ELSE 0) ELSE value.v % 256

\* lines 1297-1313: sys.exit(result); an uncaught exception ends the process with 1
MainExit ==
  /\ pc \in {"returned", "crashed"}
  /\ pc' = "exited"
  /\ exit_status' = IF pc = "crashed" THEN 1 ELSE sys_exit(result)
  /\ UNCHANGED <<mode, log, run, results, result>>
  /\ UNCHANGED <<projVars, syncVars, infoVars, buildVars>>

-----------------------------------------------------------------------------
(* build                                                                   *)

STAPLE_TIMEOUT == 300

STAPLE_SLEEP == 5

build_info == info_result.info

\* bool(value)
Truthy(val) ==
  CASE val.t = "bool" -> val.v
    [] val.t = "int" -> val.v # 0
    [] val.t = "str" -> val.v # ""
    [] OTHER -> TRUE

Call(op) == Event(op, <<>>, <<>>, 0)

\* a stage of build() went through
Proceed(next, fs1, events) ==
  /\ pc' = next
  /\ fs' = fs1
  /\ log' = log \o events
  /\ UNCHANGED <<result, exit_status>>

\* lines 947-952: BuildError is caught, the temporary directory removed, -1 returned
CatchBuildError(fs1, events) ==
  /\ pc' = "returned"
  /\ fs' = IF fs1.tmpdir = "exists" THEN [fs1 EXCEPT !.tmpdir = "removed"] ELSE fs1
  /\ log' = log \o events \o <<Call("error_build")>>
              \o (IF fs1.tmpdir = "exists" THEN <<Call("rm_tmpdir")>> ELSE <<>>)
  /\ result' = IntV(-1)
  /\ UNCHANGED exit_status

\* lines 939-941: MunkiPkgError is caught around the notarization, -1 returned
CatchMunkiPkgError(fs1, events) ==
  /\ pc' = "returned"
  /\ fs' = fs1
  /\ log' = log \o events \o <<Call("error_notarization")>>
  /\ result' = IntV(-1)
  /\ UNCHANGED exit_status

\* an exception no handler of build() catches leaves it
Uncaught(fs1, events) ==
  /\ pc' = "crashed"
  /\ fs' = fs1
  /\ log' = log \o events
  /\ UNCHANGED <<result, exit_status>>

BuildFrame ==
  /\ UNCHANGED <<mode, run, results, read_result>>
  /\ UNCHANGED <<projVars, syncVars>>

\* lines 873-884
BuildGetInfo ==
  /\ pc = "build"
  /\ info_result' = get_build_info
  /\ UNCHANGED <<fs, notary, result>>
  /\ IF get_build_info.kind \in {"MunkiPkgError", "BuildError"}
     THEN \* exit(-1): SystemExit is no BuildError and ends the process
          /\ pc' = "exited"
          /\ exit_status' = sys_exit(IntV(-1))
          /\ log' = log \o <<Call("error_build_info")>>
     ELSE IF get_build_info.kind # "ok"
     THEN /\ pc' = "crashed"
          /\ log' = log
          /\ UNCHANGED exit_status
     ELSE /\ pc' = "subdirs"
          /\ UNCHANGED exit_status
          /\ log' = log
               \o [i \in 1..Len(get_build_info.stderr) |->
                     Event("error_illegal", <<>>, <<get_build_info.stderr[i].key>>, 0)]
               \o (IF get_build_info.info.ownership
                        \in {StrV("preserve"), StrV("preserve-other")}
                      /\ euid # 0
                   THEN <<Call("warn_sudo")>> ELSE <<>>)
  /\ BuildFrame

\* build_info['payload'] and build_info['scripts'] as add_project_subdirs sets them
has_payload == fs.payload

has_scripts == fs.scripts = "scripts"

\* line 886: add_project_subdirs, lines 450-478
BuildSubdirs ==
  /\ pc = "subdirs"
  /\ IF ~has_payload /\ ~has_scripts
     THEN CatchBuildError(fs, <<>>)
     ELSE IF fs.build_dir = "none"
     THEN Proceed("component",
                  [fs EXCEPT !.build_dir = "dir", !.tmpdir = "exists"],
                  <<Call("mkdir_build"), Call("mkdtemp")>>)
     ELSE IF fs.build_dir # "dir"
     THEN CatchBuildError(fs, <<>>)
     ELSE Proceed("component", [fs EXCEPT !.tmpdir = "exists"], <<Call("mkdtemp")>>)
  /\ UNCHANGED <<info_result, notary>>
  /\ BuildFrame

\* lines 888-892: make_component_property_list, lines 199-229
BuildComponentPlist ==
  /\ pc = "component"
  /\ IF has_payload /\ Truthy(build_info.suppress_bundle_relocation)
     THEN \E outcome \in {"ok", "BuildError"} :
            IF outcome = "ok"
            THEN Proceed("pkginfo", fs, <<Call("pkgbuild_analyze")>>)
            ELSE CatchBuildError(fs, <<Call("pkgbuild_analyze")>>)
     ELSE Proceed("pkginfo", fs, <<>>)
  /\ UNCHANGED <<info_result, notary>>
  /\ BuildFrame

\* line 895: make_pkginfo, lines 232-250
BuildPkginfo ==
  /\ pc = "pkginfo"
  /\ \E outcome \in {"ok", "BuildError"} :
       IF outcome = "ok"
       THEN Proceed("rm_old", fs, <<Call("write_pkginfo")>>)
       ELSE CatchBuildError(fs, <<>>)
  /\ UNCHANGED <<info_result, notary>>
  /\ BuildFrame

\* lines 897-902
BuildRemoveOld ==
  /\ pc = "rm_old"
  /\ IF fs.pkg # "none"
     THEN \E retcode \in {0, 1} :
            IF retcode = 0
            THEN Proceed("scripts", [fs EXCEPT !.pkg = "none"], <<Call("rm_pkg")>>)
            ELSE CatchBuildError(fs, <<Call("rm_pkg")>>)
     ELSE Proceed("scripts", fs, <<>>)
  /\ UNCHANGED <<info_result, notary>>
  /\ BuildFrame

\* lines 904-918: os.remove and os.chmod raise OSError when they fail
BuildScripts ==
  /\ pc = "scripts"
  /\ IF has_scripts /\ (fs.ds_store \/ ~fs.script_exec)
     THEN \E outcome \in {"ok", "OSError"} :
            IF outcome = "OSError"
            THEN Uncaught(fs, <<>>)
            ELSE Proceed("pkgbuild",
                         [fs EXCEPT !.ds_store = FALSE, !.script_exec = TRUE],
                         (IF fs.ds_store THEN <<Call("rm_ds_store")>> ELSE <<>>)
                           \o (IF ~fs.script_exec THEN <<Call("chmod_script")>> ELSE <<>>))
     ELSE Proceed("pkgbuild", fs, <<>>)
  /\ UNCHANGED <<info_result, notary>>
  /\ BuildFrame

\* add_signing_options_to_cmd, lines 575-583: raises when identity is missing
signing_ok ==
  "signing_info" \in DOMAIN build_info => "identity" \in build_info.signing_info.v[1]

\* a faulty variant: a failed pkgbuild is reported and the build goes on
BuildPkg_continues ==
  /\ pc = "pkgbuild"
  /\ IF ~Truthy(build_info.distribution_style) /\ ~signing_ok
     THEN CatchBuildError(fs, <<>>)
     ELSE \E retcode \in {0, 1} :
            IF retcode = 0
            THEN Proceed("export_bom", [fs EXCEPT !.pkg = "component"], <<Call("pkgbuild")>>)
            ELSE Proceed("export_bom", fs, <<Call("pkgbuild"), Call("error_build")>>)
  /\ UNCHANGED <<info_result, notary>>
  /\ BuildFrame

\* line 921: build_pkg, lines 604-628
BuildPkg ==
  /\ pc = "pkgbuild"
  /\ IF ~Truthy(build_info.distribution_style) /\ ~signing_ok
     THEN CatchBuildError(fs, <<>>)
     ELSE \E retcode \in {0, 1} :
            IF retcode = 0
            THEN Proceed("export_bom", [fs EXCEPT !.pkg = "component"], <<Call("pkgbuild")>>)
            ELSE CatchBuildError(fs, <<Call("pkgbuild")>>)
  /\ UNCHANGED <<info_result, notary>>
  /\ BuildFrame

\* lines 924-925: export_bom_info, lines 557-572, and export_bom, lines 543-554
BuildExportBom ==
  /\ pc = "export_bom"
  /\ IF options.export_bom_info
     THEN \E outcome \in {"ok", "pkgutil", "lsbom"} :
            CASE outcome = "ok" ->
                   Proceed("dist", [fs EXCEPT !.bom_txt = "exported"],
                           <<Call("pkgutil_bom"), Call("lsbom")>>)
              [] outcome = "pkgutil" ->
                   CatchBuildError(fs, <<Call("pkgutil_bom")>>)
              [] OTHER ->
                   \* export_bom raises MunkiPkgError, which is no BuildError
                   Uncaught([fs EXCEPT !.bom_txt = "truncated"],
                            <<Call("pkgutil_bom"), Call("lsbom")>>)
     ELSE Proceed("dist", fs, <<>>)
  /\ UNCHANGED <<info_result, notary>>
  /\ BuildFrame

\* lines 928-929: build_distribution_pkg, lines 631-668
BuildDistribution ==
  /\ pc = "dist"
  /\ IF Truthy(build_info.distribution_style)
     THEN \E outcome \in {"ok", "rm", "productbuild", "rename"} :
            CASE outcome = "rm" ->
                   fs.dist_pkg /\ CatchBuildError(fs, <<Call("rm_dist")>>)
              [] ~signing_ok ->
                   CatchBuildError([fs EXCEPT !.dist_pkg = FALSE],
                                   IF fs.dist_pkg THEN <<Call("rm_dist")>> ELSE <<>>)
              [] outcome = "productbuild" ->
                   CatchBuildError([fs EXCEPT !.dist_pkg = FALSE],
                                   (IF fs.dist_pkg THEN <<Call("rm_dist")>> ELSE <<>>)
                                     \o <<Call("productbuild")>>)
              [] outcome = "rename" ->
                   CatchBuildError([fs EXCEPT !.dist_pkg = TRUE],
                                   (IF fs.dist_pkg THEN <<Call("rm_dist")>> ELSE <<>>)
                                     \o <<Call("productbuild")>>)
              [] OTHER ->
                   Proceed("upload", [fs EXCEPT !.dist_pkg = FALSE, !.pkg = "dist"],
                           (IF fs.dist_pkg THEN <<Call("rm_dist")>> ELSE <<>>)
                             \o <<Call("productbuild")>>)
     ELSE Proceed("upload", fs, <<>>)
  /\ UNCHANGED <<info_result, notary>>
  /\ BuildFrame

notarization_keys == build_info.notarization_info.v[1]

\* add_authentication_options, lines 684-706
authentication_ok ==
  \/ "password" \in notarization_keys
  \/ {"api_key", "api_issuer"} \subseteq notarization_keys

\* lines 932-934: upload_to_notary, lines 709-758
BuildUpload ==
  /\ pc = "upload"
  /\ IF "notarization_info" \in DOMAIN build_info /\ ~options.skip_notarization
     THEN IF "username" \notin notarization_keys \/ ~authentication_ok
          THEN CatchMunkiPkgError(fs, <<>>) /\ UNCHANGED notary
          ELSE \E outcome \in {"ok", "MunkiPkgError"} :
                 IF outcome = "MunkiPkgError"
                 THEN CatchMunkiPkgError(fs, <<Call("altool_upload")>>) /\ UNCHANGED notary
                 ELSE IF options.skip_stapling
                 THEN Proceed("cleanup", fs, <<Call("altool_upload")>>) /\ UNCHANGED notary
                 ELSE \* lines 828-831
                      /\ Proceed("poll", fs, <<Call("altool_upload")>>)
                      /\ notary' = [counter |-> 0, sleep_time |-> STAPLE_SLEEP,
                                    status |-> "none"]
     ELSE Proceed("cleanup", fs, <<>>) /\ UNCHANGED notary
  /\ UNCHANGED info_result
  /\ BuildFrame

\* line 829
staple_timeout ==
  IF "staple_timeout" \in notarization_keys
  THEN build_info.notarization_info.v[2] ELSE STAPLE_TIMEOUT

Statuses == {"success", "in progress", "Unknown", "invalid"}

\* a faulty variant: a status the notary cannot vouch for counts as done
notarization_done_unknown(status) ==
  IF status \in {"success", "Unknown"} THEN "True"
  ELSE IF status = "in progress" THEN "False"
  ELSE "MunkiPkgError"

\* notarization_done, lines 798-823: TRUE, FALSE, or the exception raised
notarization_done(status) ==
  IF status = "success" THEN "True"
  ELSE IF status \in {"in progress", "Unknown"} THEN "False"
  ELSE "MunkiPkgError"

\* lines 833-841: one iteration of the loop of wait_for_notarization
BuildPoll ==
  /\ pc = "poll"
  /\ notary.counter < staple_timeout
  /\ \E status \in Statuses \cup {"ExpatError"} :
       LET slept == Event("sleep", <<>>, <<notary.sleep_time>>, 0)
           polled == Call("altool_info")
       IN /\ notary' = [counter |-> notary.counter + notary.sleep_time,
                        sleep_time |-> notary.sleep_time + STAPLE_SLEEP,
                        status |-> status]
          /\ IF status = "ExpatError"
             THEN CatchMunkiPkgError(fs, <<slept, polled>>)
             ELSE CASE notarization_done(status) = "True" ->
                         Proceed("staple", fs, <<slept, polled>>)
                    [] notarization_done(status) = "False" ->
                         Proceed("poll", fs, <<slept, polled>>)
                    [] OTHER -> CatchMunkiPkgError(fs, <<slept, polled>>)
  /\ UNCHANGED info_result
  /\ BuildFrame

\* a faulty variant: running out of time raises MunkiPkgError like a failed notarization
BuildPollTimeout_raises ==
  /\ pc = "poll"
  /\ notary.counter >= staple_timeout
  /\ CatchMunkiPkgError(fs, <<Call("timeout_exceeded")>>)
  /\ UNCHANGED <<info_result, notary>>
  /\ BuildFrame

\* lines 833, 843-848: the time budget is used up, wait_for_notarization returns False
BuildPollTimeout ==
  /\ pc = "poll"
  /\ notary.counter >= staple_timeout
  /\ Proceed("cleanup", fs, <<Call("timeout_exceeded")>>)
  /\ UNCHANGED <<info_result, notary>>
  /\ BuildFrame

\* line 938: staple, lines 851-866
BuildStaple ==
  /\ pc = "staple"
  /\ \E retcode \in {0, 1} :
       IF retcode = 0
       THEN Proceed("cleanup", [fs EXCEPT !.pkg = "stapled"], <<Call("stapler")>>)
       ELSE CatchMunkiPkgError(fs, <<Call("stapler")>>)
  /\ UNCHANGED <<info_result, notary>>
  /\ BuildFrame

\* lines 943-945
BuildCleanup ==
  /\ pc = "cleanup"
  /\ pc' = "returned"
  /\ fs' = [fs EXCEPT !.tmpdir = "removed"]
  /\ log' = log \o <<Call("rm_tmpdir")>>
  /\ result' = IntV(0)
  /\ UNCHANGED <<exit_status, info_result, notary>>
  /\ BuildFrame

-----------------------------------------------------------------------------
(* main, create_template_project and the import                            *)

MainFrame ==
  /\ UNCHANGED <<mode, run, results>>
  /\ UNCHANGED <<options, euid, umask, arguments, package, env>>
  /\ UNCHANGED <<infoVars, notary>>
  /\ UNCHANGED <<tree0, pos, returncode, changes_made>>

\* sys.exit(value) called by main itself
Exit(value, events) ==
  /\ pc' = "exited"
  /\ exit_status' = sys_exit(value)
  /\ log' = log \o events
  /\ UNCHANGED result

\* a function returns value to main
Return(value, events) ==
  /\ pc' = "returned"
  /\ result' = value
  /\ log' = log \o events
  /\ UNCHANGED exit_status

Goto(next, events) ==
  /\ pc' = next
  /\ log' = log \o events
  /\ UNCHANGED <<result, exit_status>>

\* lines 1222-1230
valid_project_dir == fs.exists = "dir"

\* lines 1273-1312, up to the call of the command's function
MainStart ==
  /\ pc = "main"
  /\ IF arguments = 0
     THEN Exit(IntV(0), <<Call("print_usage")>>)
     ELSE IF arguments > 1
     THEN Exit(IntV(-1), <<Call("error_arguments")>>)
     ELSE IF options.json /\ options.yaml
     THEN Exit(IntV(-1), <<Call("error_formats")>>)
     ELSE IF options.yaml /\ ~env.YAML_INSTALLED
     THEN Exit(IntV(-1), <<Call("error_pyyaml")>>)
     ELSE IF mode \in {"create", "import"}
     THEN Goto(mode, <<>>)
     ELSE IF ~valid_project_dir
     THEN Exit(IntV(-1), <<Call("error_project_dir")>>)
     ELSE Goto(mode, <<>>)
  /\ UNCHANGED <<files, fs, bom, tree>>
  /\ MainFrame

\* the extension write_build_info gives the file, lines 484-501
written_type == IF options.json THEN "json" ELSE IF options.yaml THEN "yaml" ELSE "plist"

\* the build-info files once write_build_info has written build_info
write_build_info(info) ==
  [ext \in DOMAIN files \cup {written_type} |->
     IF ext = written_type THEN [valid |-> TRUE, data |-> info] ELSE files[ext]]

\* lines 514-540; os.mkdir raises OSError when the path exists or cannot be made
Create ==
  /\ pc = "create"
  /\ IF fs.exists # "none" /\ ~options.force
     THEN Return(IntV(-1), <<Call("error_exists")>>) /\ UNCHANGED <<fs, files, tree>>
     ELSE \E outcome \in {"ok", "OSError"} :
            IF fs.exists = "none" /\ outcome = "OSError"
            THEN Return(IntV(-1), <<Call("error_create")>>) /\ UNCHANGED <<fs, files, tree>>
            ELSE IF fs.exists = "file" \/ fs.payload
            THEN /\ Return(IntV(-1), <<Call("error_create")>>)
                 /\ UNCHANGED <<fs, files, tree>>
            ELSE IF fs.scripts # "none"
            THEN /\ Return(IntV(-1), <<Call("error_create")>>)
                 /\ fs' = [fs EXCEPT !.exists = "dir", !.payload = TRUE]
                 /\ tree' = [tree EXCEPT ![N_root] = Node("dir", mkdir_mode(511), euid, 20)]
                 /\ UNCHANGED files
            ELSE IF fs.build_dir # "none"
            THEN /\ Return(IntV(-1), <<Call("error_create")>>)
                 /\ fs' = [fs EXCEPT !.exists = "dir", !.payload = TRUE, !.scripts = "empty"]
                 /\ tree' = [tree EXCEPT ![N_root] = Node("dir", mkdir_mode(511), euid, 20)]
                 /\ UNCHANGED files
            ELSE /\ Return(IntV(0), <<Call("created")>>)
                 /\ fs' = [fs EXCEPT !.exists = "dir", !.payload = TRUE, !.scripts = "empty",
                                     !.build_dir = "dir"]
                 /\ tree' = [tree EXCEPT ![N_root] = Node("dir", mkdir_mode(511), euid, 20)]
                 /\ files' = write_build_info(default_build_info)
  /\ UNCHANGED bom
  /\ MainFrame

\* lines 1209-1219
ImportPkg ==
  /\ pc = "import"
  /\ IF fs.exists # "none"
     THEN Return(BoolV(FALSE), <<Call("error_exists")>>)
     ELSE IF package.bundle
     THEN Goto("import_bundle", <<>>)
     ELSE Goto("import_flat", <<>>)
  /\ UNCHANGED <<files, fs, bom, tree>>
  /\ MainFrame

\* the project once the package's Bom.txt, scripts and payload are in it
Expanded ==
  /\ fs' = [fs EXCEPT !.exists = "dir",
                      !.payload = package.shape # {},
                      !.scripts = IF package.scripts THEN "scripts" ELSE "none",
                      !.script_exec = package.scripts,
                      !.bom_txt = "exported"]
  /\ bom' = [exists |-> TRUE, lines |-> package.bom]
  /\ tree' = TreeOf(package.shape, euid)

\* the except clause of the two imports, lines 1161-1163 and 1204-1206
ImportError(created) ==
  /\ Return(IntV(-1), <<Call("error_import")>>)
  /\ fs' = [fs EXCEPT !.exists = IF created THEN "dir" ELSE "none"]
  /\ UNCHANGED <<bom, tree>>

\* lines 1168-1188: pkgutil --expand, handle_distribution_pkg, export_bom, expand_payload
ImportFlatExpand ==
  /\ pc = "import_flat"
  /\ \E outcome \in {"ok", "pkgutil", "lsbom", "ditto"} :
       CASE outcome = "pkgutil" -> ImportError(FALSE)
         [] package.distribution /\ package.pkgs # 1 -> ImportError(TRUE)
         [] outcome = "lsbom" -> ImportError(TRUE)
         [] outcome = "ditto" -> package.shape # {} /\ ImportError(TRUE)
         [] OTHER -> Goto("import_convert", <<Call("pkgutil_expand"), Call("lsbom")>>)
                       /\ Expanded
  /\ UNCHANGED files
  /\ MainFrame

\* lines 1119-1145: the bundle's Archive.bom and Archive.pax.gz, and its scripts
ImportBundleExpand ==
  /\ pc = "import_bundle"
  /\ \E outcome \in {"ok", "mkdir", "lsbom", "ditto"} :
       CASE package.distribution -> ImportError(FALSE)
         [] outcome = "mkdir" -> ImportError(FALSE)
         [] outcome = "lsbom" -> ImportError(TRUE)
         [] outcome = "ditto" -> ImportError(TRUE)
         [] OTHER -> Goto("import_convert", <<Call("lsbom"), Call("ditto")>>) /\ Expanded
  /\ UNCHANGED files
  /\ MainFrame

\* a faulty variant: root is never told of owners and groups other than 0/0
non_recommended_permissions_unprivileged ==
  IF ~bom.exists \/ euid = 0 THEN "False"
  ELSE LET items == SelectSeq(bom.lines, LAMBDA item : item # <<"\n">>)
           short(item) == Len(Split(RStrip(item, "\n"), "\t")) < 3
           other(item) == Split(RStrip(item, "\n"), "\t")[3] # <<"0", "/", "0">>
           hits == {i \in 1..Len(items) : short(items[i]) \/ other(items[i])}
       IN IF hits = {} THEN "False"
          ELSE LET first == CHOOSE i \in hits : \A j \in hits : i <= j
               IN IF short(items[first]) THEN "IndexError" ELSE "True"

\* lines 316-339: "True", "False", or the exception that leaves the function
non_recommended_permissions_in_bom ==
  IF ~bom.exists THEN "False"
  ELSE LET items == SelectSeq(bom.lines, LAMBDA item : item # <<"\n">>)
           short(item) == Len(Split(RStrip(item, "\n"), "\t")) < 3
           other(item) == Split(RStrip(item, "\n"), "\t")[3] # <<"0", "/", "0">>
           hits == {i \in 1..Len(items) : short(items[i]) \/ other(items[i])}
       IN IF hits = {} THEN "False"
          ELSE LET first == CHOOSE i \in hits : \A j \in hits : i <= j
               IN IF short(items[first]) THEN "IndexError" ELSE "True"

\* a value minidom hands out, after .encode('UTF-8'): bytes in Python 3
Encoded(v) == [t |-> IF env.python = 3 THEN "bytes" ELSE "str", v |-> v]

\* lines 955-963, followed by the caller's "or default"
get_pkginfo_attr(attribute_name, default) ==
  IF attribute_name \in DOMAIN package.attrs /\ package.attrs[attribute_name] # ""
  THEN Encoded(package.attrs[attribute_name])
  ELSE StrV(default)

\* lines 989-1004: the build-info convert_packageinfo writes
converted_packageinfo ==
  [identifier |-> get_pkginfo_attr("identifier", ""),
   version |-> get_pkginfo_attr("version", "1.0"),
   install_location |-> get_pkginfo_attr("install-location", "/"),
   postinstall_action |-> get_pkginfo_attr("postinstall-action", "none"),
   preserve_xattr |-> BoolV(get_pkginfo_attr("preserve-xattr", "") = StrV("true")),
   name |-> package.name,
   distribution_style |-> BoolV(package.distribution)]
    @@ (IF non_recommended_permissions_in_bom = "True"
        THEN "ownership" :> StrV("preserve") ELSE <<>>)

info_get(key, default) ==
  IF key \in DOMAIN package.attrs THEN package.attrs[key] ELSE default

\* lines 1014-1029: the build-info convert_info_plist writes
converted_info_plist ==
  [identifier |-> StrV(info_get("CFBundleIdentifier", "")),
   version |-> StrV(IF info_get("CFBundleShortVersionString", "") # ""
                    THEN info_get("CFBundleShortVersionString", "")
                    ELSE IF info_get("CFBundleVersion", "") # ""
                    THEN info_get("CFBundleVersion", "") ELSE "1.0"),
   install_location |-> StrV(IF info_get("IFPkgFlagDefaultLocation", "") # ""
                             THEN info_get("IFPkgFlagDefaultLocation", "") ELSE "/"),
   postinstall_action |->
     StrV(IF info_get("IFPkgFlagRestartAction", "") \in {"RequireLogout", "RecommendLogout"}
          THEN "logout"
          ELSE IF info_get("IFPkgFlagRestartAction", "")
                    \in {"RequireRestart", "RecommendRestart"}
          THEN "restart" ELSE "none"),
   name |-> package.name]
    @@ (IF non_recommended_permissions_in_bom = "True"
        THEN "ownership" :> StrV("preserve") ELSE <<>>)

\* json.dump raises TypeError on a bytes value
serializable(info) ==
  options.json => \A key \in DOMAIN info \ {"name"} : info[key].t # "bytes"

\* lines 1189-1198 and 1146-1155: the build-info is converted and written, and the
\* warning about ownership printed
ImportConvert ==
  /\ pc = "import_convert"
  /\ \E info \in {IF package.bundle THEN converted_info_plist
                  ELSE converted_packageinfo} :
       IF non_recommended_permissions_in_bom = "IndexError" \/ ~serializable(info)
       THEN Goto("crashed", <<>>) /\ UNCHANGED files
       ELSE /\ files' = write_build_info(info)
            /\ Goto("sync",
                    IF non_recommended_permissions_in_bom = "True" /\ euid # 0
                    THEN <<Call("warn_ownership")>> ELSE <<>>)
  /\ UNCHANGED <<fs, bom, tree>>
  /\ MainFrame

\* a faulty variant: the import hands on what sync_from_bom_info returned
ImportFinish_propagates ==
  /\ pc = "import_synced"
  /\ Return(result, IF result = IntV(0) THEN <<Call("gitignore"), Call("created")>> ELSE <<>>)
  /\ UNCHANGED <<files, fs, bom, tree>>
  /\ MainFrame

\* lines 1156-1160 and 1199-1203: what sync_from_bom_info returned is dropped
ImportFinish ==
  /\ pc = "import_synced"
  /\ Return(IntV(0), <<Call("gitignore"), Call("created")>>)
  /\ UNCHANGED <<files, fs, bom, tree>>
  /\ MainFrame

MaxLines == 2

MaxRuns == 2

\* the same command invoked once more, after a run that succeeded, on the project as
\* that run left it
Rerun ==
  /\ pc = "exited"
  /\ mode = "sync"
  /\ exit_status = 0
  /\ run < MaxRuns
  /\ pc' = "sync"
  /\ run' = run + 1
  /\ results' = Append(results, [status |-> exit_status, changes |-> changes_made, log |-> log])
  /\ log' = <<>>
  /\ exit_status' = -1
  /\ UNCHANGED <<mode, result>>
  /\ UNCHANGED <<projVars, syncVars, infoVars, buildVars>>

-----------------------------------------------------------------------------
(* The projects, Bom.txt files and payload trees the model starts from     *)

S_Foo == <<"F", "o", "o">>
S_pkg == <<".", "p", "k", "g">>

Content(data) == [valid |-> TRUE, data |-> data]

NoFiles == <<>>

NoOptions ==
  [json |-> FALSE, yaml |-> FALSE, quiet |-> FALSE, force |-> FALSE,
   export_bom_info |-> FALSE, skip_notarization |-> FALSE, skip_stapling |-> FALSE]

NoResult == Raised("none", "", <<>>)

BomLine(path, full_mode, user_group) ==
  path \o <<"\t">> \o full_mode \o <<"\t">> \o user_group \o <<"\n">>

P_d == <<".", "/", "d">>
P_d_f == <<".", "/", "d", "/", "f">>
P_d_sidecar == <<".", "/", "d", "/", ".", "_", "f">>
P_f == <<"f">>

M_dir755 == <<"4", "0", "7", "5", "5">>
M_dir775 == <<"4", "0", "7", "7", "5">>
M_file644 == <<"1", "0", "0", "6", "4", "4">>
M_setuid == <<"4", "7", "5", "5">>

UG_root == <<"0", "/", "0">>
UG_user == <<"5", "0", "1", "/", "2", "0">>
UG_bad == <<"x", "/", "0">>

BomLines ==
  { BomLine(P_d, M_dir755, UG_root),
    BomLine(P_d, M_dir775, UG_user),
    BomLine(P_d_f, M_file644, UG_root),
    BomLine(P_d_sidecar, M_file644, UG_root),
    BomLine(P_f, M_file644, UG_user),
    BomLine(P_d_f, M_setuid, UG_root),
    BomLine(P_d, M_dir755, UG_bad),
    P_d \o <<"\t">> \o M_dir755 \o <<"\n">>,
    <<"\n">> }

RECURSIVE SeqsUpTo(_, _)
SeqsUpTo(S, n) ==
  IF n = 0 THEN {<<>>}
  ELSE LET shorter == SeqsUpTo(S, n - 1)
       IN shorter \cup {Append(q, x) : q \in shorter, x \in S}

\* no Bom.txt, or one of up to MaxLines lines, no line twice
BomFiles ==
  {[exists |-> FALSE, lines |-> <<>>]}
    \cup {[exists |-> TRUE, lines |-> q] :
            q \in {r \in SeqsUpTo(BomLines, MaxLines) :
                     \A i, j \in 1..Len(r) : r[i] = r[j] => i = j}}

TreeShapes ==
  { {N_root, N_f},
    {N_root, N_f, N_d},
    {N_root, N_f, N_d, N_d_f},
    {N_root, N_f, N_d, N_d_sidecar},
    {N_root, N_f, N_d, N_d_f, N_d_sidecar} }

\* a checkout by the user (501/20, 755 and 644) or an expansion by root (0/0, 775 and 755)
Trees == {TreeOf(shape, owner) : shape \in TreeShapes, owner \in {0, 501}}

SyncProjects ==
  { NoFiles,
    "plist" :> Content([name |-> S_Foo \o S_pkg, ownership |-> StrV("preserve")]),
    "plist" :> Content([name |-> S_Foo \o S_pkg, ownership |-> StrV("preserve-other")]),
    "plist" :> Content([version |-> StrV(<<"2", ".", "3">>)]) }

IdleInfo == read_result = NoResult /\ info_result = NoResult

NoNotary == [counter |-> 0, sleep_time |-> 0, status |-> "none"]

NoProject ==
  [exists |-> "none", payload |-> FALSE, scripts |-> "none", ds_store |-> FALSE, script_exec |-> FALSE,
   build_dir |-> "none", pkg |-> "none", dist_pkg |-> FALSE, tmpdir |-> "none",
   bom_txt |-> "none"]

\* a project directory with a payload directory and nothing else
PayloadProject == [NoProject EXCEPT !.exists = "dir", !.payload = TRUE]

IdleBuild == fs = PayloadProject /\ notary = NoNotary

NoPackage ==
  [name |-> <<>>, bundle |-> FALSE, distribution |-> FALSE, pkgs |-> 0,
   bom |-> <<>>, shape |-> {}, scripts |-> FALSE, attrs |-> <<>>]

NoArguments == arguments = 1 /\ package = NoPackage /\ env = [python |-> 3, YAML_INSTALLED |-> TRUE]

IdleSync ==
  /\ bom = [exists |-> FALSE, lines |-> <<>>]
  /\ tree = [p \in Nodes |-> Absent]
  /\ tree0 = tree
  /\ pos = 0
  /\ returncode = 0
  /\ changes_made = 0

InitMain(m, start) ==
  /\ mode = m
  /\ pc = start
  /\ log = <<>>
  /\ run = 1
  /\ results = <<>>
  /\ result = IntV(0)
  /\ exit_status = -1

InitSync ==
  /\ InitMain("sync", "sync")
  /\ euid \in {0, 501}
  \* the ownership key only decides a warning, which root never gets
  /\ files \in {f \in SyncProjects :
                  euid = 0 => f = NoFiles \/ "name" \notin DOMAIN f["plist"].data}
  /\ options = NoOptions
  /\ umask \in {0, 18}
  /\ bom \in BomFiles
  /\ tree \in Trees
  /\ tree0 = tree
  /\ pos = 0
  /\ returncode = 0
  /\ changes_made = 0
  /\ IdleInfo
  /\ IdleBuild
  /\ NoArguments

vars ==
  <<mode, files, options, euid, umask, bom, tree, tree0, pc, pos, returncode,
    changes_made, log, run, results, result, exit_status, read_result, info_result,
    fs, notary, arguments, package, env>>

NextSync == SyncStart \/ SyncEntry \/ SyncEOF \/ MainExit \/ Rerun

SpecSync == InitSync /\ [][NextSync]_vars

-----------------------------------------------------------------------------
(* The resolver on its own: read_build_info and get_build_info applied to a *)
(* project directory                                                        *)

\* read_build_info(path) for one of the project's build-info files
ReadBuildInfo ==
  /\ mode = "info"
  /\ read_result = NoResult
  /\ \E ext \in DOMAIN files :
       /\ read_result' = read_build_info(ext)
       /\ log' = Append(log, Event("read_build_info", <<>>, ext, 0))
  /\ UNCHANGED <<mode, pc, run, results, result, exit_status, info_result>>
  /\ UNCHANGED <<projVars, syncVars, buildVars>>

\* get_build_info(project_dir, options)
GetBuildInfo ==
  /\ mode = "info"
  /\ info_result = NoResult
  /\ info_result' = get_build_info
  /\ UNCHANGED <<mode, pc, log, run, results, result, exit_status, read_result>>
  /\ UNCHANGED <<projVars, syncVars, buildVars>>

S_templated == S_Foo \o <<"-">> \o VERSION_PLACEHOLDER \o S_pkg

S_2_3 == <<"2", ".", "3">>

Invalid == [valid |-> FALSE, data |-> NoInfo]

Contents ==
  { Content([name |-> S_templated, version |-> StrV(S_2_3)]),
    Content([name |-> S_templated, version |-> FloatV(2, <<"3">>)]),
    Content([name |-> S_templated, version |-> IntV(12)]),
    Content([name |-> S_templated]),
    Content([name |-> VERSION_PLACEHOLDER \o <<"-">> \o VERSION_PLACEHOLDER,
             version |-> StrV(S_2_3)]),
    Content([name |-> S_Foo \o S_pkg, version |-> StrV(S_2_3)]),
    Content([name |-> S_Foo \o S_pkg, version |-> FloatV(2, <<"3">>)]),
    Content([name |-> S_Foo \o S_pkg]),
    Content([version |-> StrV(S_2_3)]),
    Content([name |-> S_Foo \o S_pkg, ownership |-> StrV("preserve")]),
    Content([name |-> S_Foo \o S_pkg, ownership |-> StrV("bogus")]),
    Content([name |-> S_Foo \o S_pkg, postinstall_action |-> StrV("reboot")]),
    Content([name |-> S_Foo \o S_pkg, distribution_style |-> StrV("yes")]),
    Content([name |-> S_Foo \o S_pkg, preserve_xattr |-> IntV(1)]),
    Invalid }

Exts == {"plist", "json", "yaml", "yml"}

\* a project with one build-info file of any content, or with any set of files
InfoProjects ==
  {[ext \in {one} |-> c] : one \in Exts, c \in Contents}
    \cup UNION {[E -> {Content([name |-> S_Foo \o S_pkg]),
                        Content([name |-> S_templated, version |-> StrV(S_2_3)])}]
                 : E \in SUBSET Exts}

FormatOptions ==
  {[NoOptions EXCEPT !.json = j, !.yaml = y] :
     j \in BOOLEAN, y \in BOOLEAN} \ {[NoOptions EXCEPT !.json = TRUE, !.yaml = TRUE]}

InitInfo ==
  /\ InitMain("info", "info")
  /\ files \in InfoProjects
  /\ options \in FormatOptions
  /\ euid = 501
  /\ umask = 18
  /\ IdleSync
  /\ IdleInfo
  /\ IdleBuild
  /\ NoArguments

NextInfo == ReadBuildInfo \/ GetBuildInfo

SpecInfo == InitInfo /\ [][NextInfo]_vars

-----------------------------------------------------------------------------
(* Claims about sync_from_bom_info                                         *)

Mutations == {"chmod", "mkdir", "chown"}

Mutated(events) == \E i \in 1..Len(events) : events[i].op \in Mutations

\* the loop is about to read a line that decodes to an entry
AtEntry ==
  /\ mode = "sync"
  /\ pc = "loop"
  /\ pos < Len(bom.lines)
  /\ bom.lines[pos + 1] # <<"\n">>
  /\ decode(bom.lines[pos + 1]).kind = "ok"

Entry == decode(bom.lines[pos + 1])

\* the fields of the line being read, taken from its text
EntryPath ==
  LET raw == Split(bom.lines[pos + 1], "\t")[1]
  IN IF Len(raw) >= 2 /\ raw[1] = "." /\ raw[2] = "/" THEN SubSeq(raw, 3, Len(raw)) ELSE raw

EntryPayloadPath == payload_dir \o <<"/">> \o EntryPath

\* the tree key of the directory holding the entry's path
EntryParent == SubSeq(EntryPath, 1, LastIndexOf(EntryPath, "/") - 1)

EntryModeField == Split(bom.lines[pos + 1], "\t")[2]

EntryIsSidecar ==
  LET i == LastIndexOf(EntryPath, "/")
  IN Len(EntryPath) >= i + 2 /\ EntryPath[i + 1] = "." /\ EntryPath[i + 2] = "_"

EntryAbsent == tree[EntryPath].kind = "none"

\* C1: a second run after a first run that returned 0 makes no change: no
\* chmod, mkdir or chown, a change count of 0, and the tree as the first run left it.
C1_SecondRunChangesNothing ==
  (mode = "sync" /\ run = 2 /\ pc # "sync" /\ results[1].status = 0)
    => (tree = tree0 /\ changes_made = 0 /\ ~Mutated(log))

\* the step at a missing path whose entry is no sidecar and no directory
C2_Aborts ==
  (AtEntry /\ ~EntryIsSidecar /\ EntryAbsent /\ EntryModeField[1] # "4")
    => (/\ pc' = "returned"
        /\ returncode' = -1
        /\ result' = IntV(-1)
        /\ tree' = tree
        /\ pos' = pos + 1
        /\ log' = Append(log, Event("error_missing", EntryPayloadPath, <<>>, pos + 1)))

\* the step after sync_from_bom_info returned
C2_NothingAfter ==
  (mode = "sync" /\ pc = "returned")
    => (/\ pc' = "exited"
        /\ (result = IntV(-1) => exit_status' # 0)
        /\ tree' = tree /\ log' = log /\ pos' = pos)

\* C2: a missing path whose entry is no sidecar and no directory ends the run at
\* that entry with -1 and an error naming the path, and nothing is processed after it:
\* the next step is the exit, with a non-zero status and the tree and output as they were.
C2_MissingFileAbort == [][C2_Aborts /\ C2_NothingAfter]_vars

\* C2 witness: the run ended on a missing file with a line of Bom.txt still unread
C2_Witness ==
  /\ mode = "sync"
  /\ pc = "exited"
  /\ exit_status = 255
  /\ log # <<>> /\ log[Len(log)].op = "error_missing"
  /\ pos < Len(bom.lines)

\* the first run made directory p, which one entry of Bom.txt names
C3_CreatedInFirstRun(p) ==
  /\ \E j \in 1..Len(results[1].log) :
       results[1].log[j].op = "mkdir" /\ results[1].log[j].path = p
  /\ Cardinality({j \in 1..Len(bom.lines) :
                    /\ decode(bom.lines[j]).kind = "ok"
                    /\ payload_dir \o <<"/">> \o decode(bom.lines[j]).path = p}) = 1

\* C3: a missing directory entry whose parent exists is created with exactly the
\* declared permission bits and counted as one change, and a second run makes no
\* further change to that path.
C3_DirectoryRecreation ==
  /\ [][(/\ AtEntry /\ ~EntryIsSidecar /\ EntryAbsent /\ EntryModeField[1] = "4"
         /\ tree[EntryParent].kind = "dir"
         /\ may_write(tree, payload_dir \o <<"/">> \o EntryParent))
          => (/\ tree'[EntryPath].kind = "dir"
              /\ tree'[EntryPath].mode = Entry.desired_mode
              /\ changes_made' = changes_made + 1)]_vars
  /\ []((mode = "sync" /\ run = 2 /\ pc # "sync")
          => \A i \in 1..Len(log) :
               ~(log[i].op \in Mutations /\ C3_CreatedInFirstRun(log[i].path)))

\* C4: a sidecar entry changes nothing in the tree, is reported with a warning
\* naming its sibling, and never ends the run, whether or not its path exists.
C4_SidecarSkip ==
  [][(AtEntry /\ EntryIsSidecar)
       => /\ tree' = tree
          /\ changes_made' = changes_made
          /\ pc' = "loop"
          /\ UNCHANGED <<returncode, result>>
          /\ LET i == LastIndexOf(EntryPath, "/")
                 sibling == SubSeq(EntryPath, 1, i) \o Drop(EntryPath, i + 2)
             IN log' = Append(log, Event("warn_xattr", EntryPath, sibling, pos + 1))]_vars

\* C4 witness: warnings were printed for a sidecar that is missing and the run went on
C4_Witness ==
  /\ mode = "sync"
  /\ pc = "exited"
  /\ exit_status = 0
  /\ tree[N_d_sidecar].kind = "none"
  /\ tree[N_d].kind = "dir"
  /\ \E i \in 1..Len(log) : log[i].op = "warn_xattr" /\ i < Len(log) - 1

\* an entry already read names path p
C10_Named(p) ==
  \E i \in 1..pos :
    /\ decode(bom.lines[i]).kind = "ok"
    /\ decode(bom.lines[i]).path = p

\* p is there as when the run started, or is a directory an entry named
C10_Kept(p) ==
  IF tree0[p].kind # "none" THEN tree[p].kind = tree0[p].kind
  ELSE tree[p].kind = "none" \/ (tree[p].kind = "dir" /\ C10_Named(p))

\* a step that changes existing path p sets what the entry being read declares
C10_Write(p) ==
  (tree[p].kind # "none" /\ tree'[p] # tree[p])
    => (/\ AtEntry
        /\ p = EntryPath
        /\ tree'[p].kind = tree[p].kind
        /\ tree'[p].mode \in {tree[p].mode, Entry.desired_mode}
        /\ tree'[p].uid \in {tree[p].uid, Entry.desired_user}
        /\ tree'[p].gid \in {tree[p].gid, Entry.desired_group})

\* C10: during a run every path that existed when it started keeps its type, every
\* path added is a directory an entry of Bom.txt names, and every change of mode,
\* owner or group sets the value the entry being read declares for that path.
C10_Monotone ==
  /\ []((mode = "sync" /\ pc # "sync") => \A p \in Nodes : C10_Kept(p))
  /\ [][mode = "sync" => \A p \in Nodes : C10_Write(p)]_vars

\* C10 witness: a run that created a directory, changed a mode and changed an owner
C10_Witness ==
  /\ mode = "sync"
  /\ pc = "returned"
  /\ \E i, j, k \in 1..Len(log) :
       log[i].op = "mkdir" /\ log[j].op = "chmod" /\ log[k].op = "chown"

-----------------------------------------------------------------------------
(* Claims about the build-info resolver                                    *)

\* C5 as stated: whenever two or more build-info files exist, whatever the format
\* option, get_build_info fails with the "Multiple build-info files" error.
C5_MultipleRejectedAlways ==
  (mode = "info" /\ info_result # NoResult /\ Cardinality(DOMAIN files) >= 2)
    => (/\ info_result.kind = "MunkiPkgError"
        /\ info_result.msg = "Multiple build-info files found!"
        /\ info_result.info = NoInfo)

\* C5 amended: with neither --json nor --yaml, whenever two or more build-info
\* files exist get_build_info fails with the "Multiple build-info files" error and
\* returns no build-info.
C5_MultipleRejectedWhenProbing ==
  (/\ mode = "info" /\ info_result # NoResult
   /\ ~options.json /\ ~options.yaml
   /\ Cardinality(DOMAIN files) >= 2)
    => (/\ info_result.kind = "MunkiPkgError"
        /\ info_result.msg = "Multiple build-info files found!"
        /\ info_result.info = NoInfo)

\* C5 witness: build-info.plist and build-info.json both exist and the error was raised
C5_Witness ==
  /\ mode = "info"
  /\ {"plist", "json"} \subseteq DOMAIN files
  /\ files["plist"].valid /\ files["json"].valid
  /\ info_result.kind = "MunkiPkgError"
  /\ info_result.msg = "Multiple build-info files found!"

\* the file read_build_info was applied to
ReadFile == files[log[Len(log)].arg]

S_Foo_2_3_pkg == <<"F", "o", "o", "-", "2", ".", "3", ".", "p", "k", "g">>

\* C9: read_build_info turns name "Foo-${version}.pkg" with version "2.3" (or the
\* number 2.3) into "Foo-2.3.pkg", and returns a name without the placeholder
\* unchanged, whatever the version and also when there is none.
C9_NameTemplating ==
  (mode = "info" /\ read_result # NoResult /\ ReadFile.valid
   /\ "name" \in DOMAIN ReadFile.data)
    => /\ (/\ ReadFile.data.name = S_templated
           /\ "version" \in DOMAIN ReadFile.data
           /\ ReadFile.data.version \in {StrV(S_2_3), FloatV(2, <<"3">>)})
            => (read_result.kind = "ok" /\ read_result.info.name = S_Foo_2_3_pkg)
       /\ (\A i \in 1..(Len(ReadFile.data.name) - 9) :
             SubSeq(ReadFile.data.name, i, i + 9) # VERSION_PLACEHOLDER)
            => (read_result.kind = "ok" /\ read_result.info.name = ReadFile.data.name)

\* C9 witness: the numeric version 2.3 was substituted into "Foo-${version}.pkg"
C9_Witness ==
  /\ mode = "info"
  /\ read_result.kind = "ok"
  /\ ReadFile.data.name = S_templated
  /\ ReadFile.data.version = FloatV(2, <<"3">>)
  /\ read_result.info.name = S_Foo_2_3_pkg

-----------------------------------------------------------------------------
(* The build command on its own                                            *)

S_a_pkg == <<"a", ".", "p", "k", "g">>

\* the contents of build-info.plist the builds start from
BuildContents ==
  { Content([name |-> S_a_pkg]),
    Content([name |-> S_a_pkg, ownership |-> StrV("bogus")]),
    Content([name |-> S_a_pkg, ownership |-> StrV("preserve"),
             postinstall_action |-> StrV("reboot")]),
    Content([name |-> S_a_pkg, suppress_bundle_relocation |-> StrV("no"),
             distribution_style |-> IntV(2)]),
    Content([name |-> S_a_pkg, suppress_bundle_relocation |-> BoolV(FALSE),
             preserve_xattr |-> StrV("true")]),
    Content([name |-> S_a_pkg, signing_info |-> DictV({}, 0)]),
    Content([name |-> S_a_pkg, distribution_style |-> BoolV(TRUE),
             signing_info |-> DictV({"identity"}, 0)]),
    Content([name |-> S_a_pkg, distribution_style |-> BoolV(TRUE),
             signing_info |-> DictV({"keychain"}, 0)]),
    Content([name |-> S_a_pkg,
             notarization_info |-> DictV({"username", "password"}, 0)]),
    Content([name |-> S_a_pkg,
             notarization_info |-> DictV({"username", "password", "staple_timeout"}, 12)]),
    Content([name |-> S_a_pkg,
             notarization_info |->
               DictV({"username", "api_key", "api_issuer", "staple_timeout"}, 15)]),
    Content([name |-> S_a_pkg, distribution_style |-> BoolV(TRUE),
             notarization_info |-> DictV({"username", "password", "staple_timeout"}, 12)]),
    Content([name |-> S_a_pkg, notarization_info |-> DictV({"password"}, 0)]),
    Content([name |-> S_a_pkg, notarization_info |-> DictV({"username", "api_key"}, 0)]),
    [valid |-> FALSE, data |-> <<>>] }

BuildProjects ==
  {NoFiles}
    \cup {"plist" :> c : c \in BuildContents}
    \cup {("plist" :> Content([name |-> S_a_pkg])) @@ ("yaml" :> Content([name |-> S_a_pkg]))}

BuildOptions ==
  {[NoOptions EXCEPT !.export_bom_info = e, !.skip_notarization = n, !.skip_stapling = s] :
     e \in BOOLEAN, n \in BOOLEAN, s \in BOOLEAN}

\* the project directories the builds start from
BuildDirs ==
  {[NoProject EXCEPT !.exists = "dir", !.payload = p, !.scripts = s, !.ds_store = d, !.build_dir = b,
                     !.pkg = k, !.dist_pkg = k = "old"] :
     p \in BOOLEAN, s \in {"none", "empty", "scripts"}, d \in BOOLEAN,
     b \in {"none", "dir", "file"}, k \in {"none", "old"}}

InitBuild ==
  /\ InitMain("build", "build")
  /\ files \in BuildProjects
  /\ options \in BuildOptions
  /\ euid \in {0, 501}
  /\ umask = 18
  /\ fs \in {d \in BuildDirs :
               /\ d.pkg = "old" => d.build_dir = "dir"
               /\ d.ds_store => d.scripts # "none"}
  /\ notary = NoNotary
  /\ IdleSync
  /\ IdleInfo
  /\ NoArguments

NextBuild ==
  \/ BuildGetInfo
  \/ BuildSubdirs
  \/ BuildComponentPlist
  \/ BuildPkginfo
  \/ BuildRemoveOld
  \/ BuildScripts
  \/ BuildPkg
  \/ BuildExportBom
  \/ BuildDistribution
  \/ BuildUpload
  \/ BuildPoll
  \/ BuildPollTimeout
  \/ BuildStaple
  \/ BuildCleanup
  \/ MainExit

SpecBuild == InitBuild /\ [][NextBuild]_vars

-----------------------------------------------------------------------------
(* The command line: every mode, from main                                 *)

Interpreters == {[python |-> v, YAML_INSTALLED |-> y] : v \in {2, 3}, y \in BOOLEAN}

FormatFlags ==
  {[NoOptions EXCEPT !.json = j, !.yaml = y, !.force = f] :
     j \in BOOLEAN, y \in BOOLEAN, f \in BOOLEAN}

\* what the path given to --create or --import may be before the command
Targets ==
  { NoProject,
    [NoProject EXCEPT !.exists = "file"],
    [NoProject EXCEPT !.exists = "dir"],
    [NoProject EXCEPT !.exists = "dir", !.scripts = "scripts"],
    [NoProject EXCEPT !.exists = "dir", !.build_dir = "dir"],
    PayloadProject }

FlatAttrs ==
  { <<>>,
    [identifier |-> "com.x", version |-> "2.3"],
    [identifier |-> "com.x"] @@ ("postinstall-action" :> "restart")
      @@ ("preserve-xattr" :> "true") }

BundleAttrs ==
  { <<>>,
    [CFBundleIdentifier |-> "com.x", CFBundleVersion |-> "2.3",
     IFPkgFlagRestartAction |-> "RecommendLogout"] }

PackageBoms ==
  { <<>>,
    <<BomLine(P_d, M_dir755, UG_root)>>,
    <<BomLine(P_d, M_dir755, UG_root), BomLine(P_d_f, M_file644, UG_user)>>,
    <<BomLine(P_f, M_file644, UG_root), <<"\n">>>>,
    <<P_d \o <<"\t">> \o M_dir755 \o <<"\n">>>> }

Packages ==
  {[name |-> S_a_pkg, bundle |-> FALSE, distribution |-> d, pkgs |-> n,
    bom |-> b, shape |-> sh, scripts |-> sc, attrs |-> a] :
     d \in BOOLEAN, n \in {1, 2}, b \in PackageBoms,
     sh \in {{}, {N_root, N_f}, {N_root, N_f, N_d}}, sc \in BOOLEAN, a \in FlatAttrs}
    \cup
  {[name |-> S_a_pkg, bundle |-> TRUE, distribution |-> d, pkgs |-> 0,
    bom |-> b, shape |-> sh, scripts |-> sc, attrs |-> a] :
     d \in BOOLEAN, b \in PackageBoms,
     sh \in {{N_root, N_f}, {N_root, N_f, N_d}}, sc \in BOOLEAN, a \in BundleAttrs}

InitCreate ==
  /\ InitMain("create", "main")
  /\ arguments \in {0, 1, 2}
  /\ options \in FormatFlags
  /\ env \in Interpreters
  /\ fs \in Targets
  /\ files = NoFiles
  /\ package = NoPackage
  /\ euid \in {0, 501}
  /\ IdleSync

InitImport ==
  /\ InitMain("import", "main")
  /\ arguments = 1
  /\ options \in {o \in FormatFlags : ~o.force /\ ~o.yaml}
  /\ env \in {e \in Interpreters : e.YAML_INSTALLED}
  /\ fs \in {NoProject, PayloadProject}
  /\ files = NoFiles
  /\ package \in {k \in Packages : k.distribution => k.pkgs = 2 \/ k.bom = <<>>}
  /\ euid \in {0, 501}
  /\ IdleSync

InitSyncCommand ==
  /\ InitMain("sync", "main")
  /\ arguments = 1
  /\ options = NoOptions
  /\ env \in {e \in Interpreters : e.python = 3}
  /\ fs \in {NoProject, PayloadProject}
  /\ files \in SyncProjects
  /\ package = NoPackage
  /\ euid \in {0, 501}
  /\ bom \in {b \in BomFiles : Len(b.lines) <= 1}
  /\ tree \in {TreeOf(shape, 501) : shape \in TreeShapes}
  /\ tree0 = tree
  /\ pos = 0
  /\ returncode = 0
  /\ changes_made = 0

InitBuildCommand ==
  /\ InitMain("build", "main")
  /\ arguments = 1
  /\ options \in {o \in BuildOptions : o.export_bom_info}
  /\ env = [python |-> 3, YAML_INSTALLED |-> TRUE]
  /\ fs \in {d \in BuildDirs \cup {NoProject} :
               d.payload /\ d.build_dir = "dir" /\ d.scripts = "scripts" => d.ds_store}
  /\ files \in BuildProjects
  /\ package = NoPackage
  /\ euid = 501
  /\ IdleSync

InitCommand ==
  /\ InitCreate \/ InitImport \/ InitSyncCommand \/ InitBuildCommand
  /\ umask = 18
  /\ notary = NoNotary
  /\ IdleInfo

NextCommand ==
  \/ MainStart
  \/ Create
  \/ ImportPkg
  \/ ImportFlatExpand
  \/ ImportBundleExpand
  \/ ImportConvert
  \/ ImportFinish
  \/ SyncStart
  \/ SyncEntry
  \/ SyncEOF
  \/ BuildGetInfo
  \/ BuildSubdirs
  \/ BuildComponentPlist
  \/ BuildPkginfo
  \/ BuildRemoveOld
  \/ BuildScripts
  \/ BuildPkg
  \/ BuildExportBom
  \/ BuildDistribution
  \/ BuildUpload
  \/ BuildPoll
  \/ BuildPollTimeout
  \/ BuildStaple
  \/ BuildCleanup
  \/ MainExit

SpecCommand == InitCommand /\ [][NextCommand]_vars

-----------------------------------------------------------------------------
(* Claims about build and about the exit status                            *)

\* the file get_build_info loads has an enum-valued key with an illegal value
IllegalFileLoaded ==
  /\ ~multiple_check
  /\ file_type \in DOMAIN files
  /\ files[file_type].valid
  /\ ~validate_build_info_keys(files[file_type].data)

\* what build() does to the project directory and the tools it runs
SideEffects ==
  {"mkdir_build", "mkdtemp", "pkgbuild_analyze", "write_pkginfo", "rm_pkg", "rm_ds_store",
   "chmod_script", "pkgbuild", "pkgutil_bom", "lsbom", "rm_dist", "productbuild",
   "altool_upload", "altool_info", "stapler", "rm_tmpdir"}

\* C6: when the loaded build-info file holds an enum-valued key with an illegal value,
\* the build gets no build-info record and has no side effect: it makes no build or
\* temporary directory, removes no package and runs no tool
C6_EnumValidation ==
  (mode = "build" /\ IllegalFileLoaded)
    => (/\ info_result.kind # "ok"
        /\ fs.tmpdir = "none"
        /\ \A i \in 1..Len(log) : log[i].op \notin SideEffects)

\* C7: however build() ends once add_project_subdirs has made the temporary directory,
\* by a return or by an exception leaving it, the temporary directory has been removed
C7_TmpdirCleanup ==
  (mode = "build" /\ pc \in {"returned", "crashed", "exited"}) => fs.tmpdir # "exists"

\* the messages that report a fatal error
FatalErrors ==
  {"error_arguments", "error_formats", "error_pyyaml", "error_project_dir",
   "error_exists", "error_create", "error_import", "error_nobom", "error_missing",
   "error_exc", "error_build", "error_build_info", "error_notarization"}

\* C8: in every mode the process exits with status 0 only when no fatal error was
\* reported; an import into an existing directory and a failed expansion exit non-zero
C8_ExitStatus ==
  (pc = "exited" /\ exit_status = 0)
    => \A i \in 1..Len(log) : log[i].op \notin FatalErrors

\* the output and the tool calls so far hold an event op
InLog(op) == \E i \in 1..Len(log) : log[i].op = op

\* C11: when the polling runs out of time with only 'in progress' and 'Unknown' seen,
\* wait_for_notarization returns False: stapling is not run, the built package stays,
\* the temporary directory is removed and build() returns 0 (exit status 0).
C11_TimeoutNonFatal ==
  /\ [][(mode = "build" /\ pc = "poll" /\ notary.counter >= staple_timeout)
          => (/\ pc' = "cleanup"
              /\ log' = Append(log, Call("timeout_exceeded"))
              /\ fs' = fs)]_vars
  /\ []((mode = "build" /\ InLog("timeout_exceeded"))
          => (/\ notary.status \in {"none", "in progress", "Unknown"}
              /\ ~InLog("stapler")
              /\ fs.pkg \in {"component", "dist"}
              /\ pc \in {"cleanup", "returned", "exited"}
              /\ (pc # "cleanup" => result = IntV(0) /\ fs.tmpdir = "removed")
              /\ (pc = "exited" => exit_status = 0)))

\* C11 witness: two or more polls saw no final status, the time ran out and the build exited
C11_Witness ==
  /\ mode = "build"
  /\ pc = "exited"
  /\ InLog("timeout_exceeded")
  /\ notary.counter >= staple_timeout
  /\ notary.status = "in progress"
  /\ Cardinality({i \in 1..Len(log) : log[i].op = "altool_info"}) >= 2

\* the resolved build-info lacks a sub-key that signing or notarization requires
MissingSubKey ==
  /\ info_result.kind = "ok"
  /\ \/ ~signing_ok
     \/ /\ "notarization_info" \in DOMAIN build_info
        /\ ("username" \notin notarization_keys \/ ~authentication_ok)

\* C12: when signing_info lacks identity, or notarization_info lacks username or its
\* credentials, the build has made no build or temporary directory, removed no package,
\* changed no script and built no package: the error comes before any mutating action.
C12_SubKeysBeforeMutation ==
  (mode = "build" /\ MissingSubKey)
    => (/\ fs.tmpdir = "none"
        /\ \A i \in 1..Len(log) : log[i].op \notin SideEffects)

\* C13: a sync of a project without Bom.txt returns -1 with the error message
\* and leaves the payload tree as it was, for every build-info file and euid
C13_MissingBom ==
  (mode = "sync" /\ ~bom.exists /\ pc # "sync")
    => (/\ pc # "crashed"
        /\ result = IntV(-1)
        /\ InLog("error_nobom")
        /\ tree = tree0
        /\ ~Mutated(log))

-----------------------------------------------------------------------------
(* export_bom, and the Bom.txt it wrote read back line by line             *)

\* the octal digits of a mode, as lsbom prints them
RECURSIVE OctStr(_)
OctStr(n) ==
  IF n < 8 THEN <<DecDigits[n + 1]>> ELSE OctStr(n \div 8) \o <<DecDigits[(n % 8) + 1]>>

\* one line of lsbom's listing: path, mode, uid/gid and the further fields of the entry
lsbom_line(e) ==
  e.path \o <<"\t">> \o OctStr(e.mode) \o <<"\t">>
    \o IntStr(e.uid) \o <<"/">> \o IntStr(e.gid) \o e.more \o <<"\n">>

\* lines 543-554: lsbom's output is Bom.txt; a failing lsbom leaves what it had written
export_bom ==
  /\ mode = "export"
  /\ pc = "export_bom"
  /\ \E n \in 0..Len(package.listing) :
        /\ bom' = [exists |-> TRUE,
                   lines |-> [i \in 1..n |-> lsbom_line(package.listing[i])]]
        /\ pc' = IF n = Len(package.listing) THEN "decode" ELSE "MunkiPkgError"
  /\ UNCHANGED <<mode, log, run, results, result, exit_status>>
  /\ UNCHANGED <<tree, tree0, pos, returncode, changes_made>>
  /\ UNCHANGED <<projVars, infoVars, buildVars>>

\* lines 376-391: the next line of Bom.txt is read and decoded
DecodeLine ==
  /\ mode = "export"
  /\ pc = "decode"
  /\ pos < Len(bom.lines)
  /\ pos' = pos + 1
  /\ LET item == bom.lines[pos + 1]
         e == decode(item)
     IN IF item = <<"\n">> THEN UNCHANGED <<pc, log>>
        ELSE IF e.kind # "ok" THEN pc' = e.kind /\ log' = log
        ELSE /\ pc' = pc
             /\ log' = Append(log, Event("entry", e.path,
                                         <<e.desired_mode, e.desired_user, e.desired_group>>,
                                         pos + 1))
  /\ UNCHANGED <<mode, run, results, result, exit_status>>
  /\ UNCHANGED <<bom, tree, tree0, returncode, changes_made>>
  /\ UNCHANGED <<projVars, infoVars, buildVars>>

\* lines 378-379: readline returned the empty string
DecodeEOF ==
  /\ mode = "export"
  /\ pc = "decode"
  /\ pos = Len(bom.lines)
  /\ pc' = "decoded"
  /\ UNCHANGED <<mode, log, run, results, result, exit_status>>
  /\ UNCHANGED <<syncVars, projVars, infoVars, buildVars>>

\* the further fields lsbom prints for a file: size and checksum, and a link's target
MoreFile == <<"\t", "1", "2", "\t", "3", "4", "5">>
MoreLink == MoreFile \o <<"\t", "d", "/", "f">>

\* entries of a package's bom: directories, files, a link, with and without './'
BomEntries ==
  { [path |-> <<".">>, mode |-> 16877, uid |-> 0, gid |-> 0, more |-> <<>>],
    [path |-> <<".", "/", "d">>, mode |-> 16893, uid |-> 501, gid |-> 20, more |-> <<>>],
    [path |-> <<".", "/", "d", "/", "f">>, mode |-> 33188, uid |-> 0, gid |-> 80,
     more |-> MoreFile],
    [path |-> <<".", "/", "d", "/", "f">>, mode |-> 35309, uid |-> 0, gid |-> 0,
     more |-> MoreFile],
    [path |-> <<"f", " ", "g">>, mode |-> 33188, uid |-> 501, gid |-> 20, more |-> <<>>],
    [path |-> <<".", "/", ".", "/", "x">>, mode |-> 493, uid |-> 0, gid |-> 0,
     more |-> MoreFile],
    [path |-> <<".", "/", "l">>, mode |-> 41453, uid |-> 70000, gid |-> 0,
     more |-> MoreLink] }

InitExport ==
  /\ InitMain("export", "export_bom")
  /\ package \in {[listing |-> q] @@ NoPackage : q \in SeqsUpTo(BomEntries, MaxLines)}
  /\ files = NoFiles
  /\ options = NoOptions
  /\ euid = 501
  /\ umask = 18
  /\ arguments = 1
  /\ env = [python |-> 3, YAML_INSTALLED |-> TRUE]
  /\ IdleSync
  /\ IdleInfo
  /\ IdleBuild

NextExport == export_bom \/ DecodeLine \/ DecodeEOF

SpecExport == InitExport /\ [][NextExport]_vars

\* a listed path without its leading './'
Listed(path) == IF StartsWith(path, <<".", "/">>) THEN Drop(path, 2) ELSE path

\* C14: the Bom.txt export_bom wrote, decoded line by line, gives the listing's entries
\* in the listing's order: every line decodes, the k lines read so far gave the first k
\* entries with the path less one leading './', the low four octal digits of the mode,
\* the uid and the gid, and at the end of the file all entries have been given.
C14_RoundTrip ==
  mode = "export" =>
    /\ pc \notin {"IndexError", "ValueError"}
    /\ pc \in {"decode", "decoded"} =>
         /\ Len(log) = pos
         /\ pc = "decoded" => pos = Len(package.listing)
         /\ \A i \in 1..Len(log) :
              /\ log[i].path = Listed(package.listing[i].path)
              /\ log[i].arg = <<package.listing[i].mode % 4096,
                                package.listing[i].uid, package.listing[i].gid>>

C14_Witness ==
  /\ mode = "export" /\ pc = "decoded" /\ Len(log) = 2
  /\ log[1].path = <<"d", "/", "f">> /\ log[1].arg = <<2541, 0, 0>>
  /\ package.listing[1].more # <<>>
  /\ log[2].path = <<".", "/", "x">> /\ log[2].arg = <<493, 0, 0>>

-----------------------------------------------------------------------------
(* Claims about what an aborted or completed sync leaves behind            *)

\* the tree after the first k lines of Bom.txt, read in order from tree tr
RECURSIVE TreeAfter(_, _, _)
TreeAfter(lines, k, tr) ==
  IF k = 0 THEN tr ELSE read_line(lines[k], TreeAfter(lines, k - 1, tr), k).tree

\* the sync returned -1 at the entry of line pos: a missing regular file, or a failed
\* chmod or mkdir
Aborted ==
  /\ mode = "sync" /\ pc \in {"returned", "exited"} /\ result = IntV(-1)
  /\ log # <<>>
  /\ LET last == log[Len(log)]
     IN /\ last.line = pos
        /\ \/ last.op = "error_missing"
           \/ last.op = "error_exc" /\ last.arg = <<"OSError">>

\* what event i of the log did is what the tree shows, unless a later event redid it
InPlace(i) ==
  LET ev == log[i]
      node == tree[rel(ev.path)]
  IN (\A j \in (i + 1)..Len(log) : ~(log[j].op = ev.op /\ log[j].path = ev.path))
       => CASE ev.op = "chmod" -> node.kind # "none" /\ node.mode = ev.arg[1]
            [] ev.op = "mkdir" -> node.kind = "dir"
            [] ev.op = "chown" -> node.uid = ev.arg[1] /\ node.gid = ev.arg[2]
            [] OTHER -> TRUE

\* C15: when the sync aborts at entry k with -1, the aborting step itself changes
\* nothing, the tree is the starting tree with exactly the first k-1 entries applied,
\* and every chmod, mkdir and chown logged for them is still in place.
C15_NoRollback ==
  /\ [][(mode = "sync" /\ pc = "loop" /\ pc' = "returned" /\ result' = IntV(-1)
           /\ pos' = pos + 1)
          => tree' = tree /\ tree' = TreeAfter(bom.lines, pos, tree0)]_vars
  /\ [](Aborted
          => /\ tree = TreeAfter(bom.lines, pos - 1, tree0)
             /\ \A i \in 1..Len(log) : InPlace(i))

C15_Witness ==
  /\ Aborted /\ pos = 2 /\ tree # tree0
  /\ \E i \in 1..Len(log) : log[i].op = "chmod" /\ log[i].line = 1
  /\ log[Len(log)].op = "error_missing"

-----------------------------------------------------------------------------
(* Claims about the notarization poll                                      *)

\* the sleeps of wait_for_notarization so far, in order; a poll follows each
Sleeps == SelectSeq(log, LAMBDA ev : ev.op = "sleep")

\* seconds slept in the first n of them
RECURSIVE Slept(_)
Slept(n) == IF n = 0 THEN 0 ELSE Slept(n - 1) + Sleeps[n].arg[1]

\* C16: the sleep before the n-th poll is n*STAPLE_SLEEP seconds; when the loop gives up
\* the time slept does not exceed the timeout; and no poll is issued once the time slept
\* has reached the timeout.
C16_PollBudget ==
  mode = "build" =>
    /\ \A n \in 1..Len(Sleeps) : Sleeps[n].arg = <<n * STAPLE_SLEEP>>
    /\ InLog("timeout_exceeded") => Slept(Len(Sleeps)) <= staple_timeout
    /\ \A n \in 1..Len(Sleeps) : Slept(n) < staple_timeout

\* the positions of an operation in the log
Positions(op) == {i \in 1..Len(log) : log[i].op = op}

\* this step is a poll: the notary was asked and answered with a status
Polled == mode = "build" /\ pc = "poll" /\ notary'.counter > notary.counter

\* C17: a poll is followed by another only when it observed 'in progress' or 'Unknown';
\* a poll that observes 'success' ends the loop and leads to the stapling, which nothing
\* else leads to; a poll that observes any other status ends the loop with the
\* notarization error, build() returning -1 and nothing stapled.  Every stapling comes
\* after the upload and after a poll that observed 'success'.
C17_PollOutcomes ==
  /\ [][Polled =>
          /\ notary'.status \in {"in progress", "Unknown"} <=> pc' = "poll"
          /\ notary'.status = "success" <=> pc' = "staple"
          /\ notary'.status \in Statuses \ {"success", "in progress", "Unknown"}
               => /\ pc' = "returned"
                  /\ result' = IntV(-1)
                  /\ log'[Len(log')] = Call("error_notarization")]_vars
  /\ [][(mode = "build" /\ pc' = "staple") => Polled \/ pc = "staple"]_vars
  /\ [](mode = "build" =>
          /\ pc = "staple" => notary.status = "success"
          /\ notary.status \notin {"none", "success"} /\ pc # "poll" => ~InLog("stapler")
          /\ \A i \in Positions("stapler") :
               /\ notary.status = "success"
               /\ \E u \in Positions("altool_upload") : u < i
               /\ \E q \in Positions("altool_info") : q < i
               /\ \A q \in Positions("altool_info") \cup Positions("altool_upload") : q < i)

C17_Witness ==
  /\ mode = "build" /\ pc = "exited" /\ InLog("stapler")
  /\ Cardinality(Positions("altool_info")) >= 2
  /\ fs.pkg = "stapled"

-----------------------------------------------------------------------------
(* Claims about ownership and about lines that do not decode               *)

B(cond) == IF cond THEN 1 ELSE 0

\* no two lines of Bom.txt name the same path
OnePerPath ==
  \A i, j \in 1..Len(bom.lines) :
    (/\ i # j
     /\ decode(bom.lines[i]).kind = "ok"
     /\ decode(bom.lines[j]).kind = "ok") => decode(bom.lines[i]).path # decode(bom.lines[j]).path

\* a sync as root went through Bom.txt and returned 0: every entry that is no sidecar
\* and whose path was there at the start has the declared bits, owner and group
DeclaredAtEnd ==
  (/\ mode = "sync" /\ euid = 0 /\ result = IntV(0)
   /\ (pc = "returned" \/ (pc = "exited" /\ exit_status = 0))
   /\ bom.exists /\ pos = Len(bom.lines) /\ OnePerPath)
    => \A k \in 1..Len(bom.lines) :
         LET e == decode(bom.lines[k])
         IN (/\ bom.lines[k] # <<"\n">>
             /\ e.kind = "ok"
             /\ ~StartsWith(Basename(e.path), <<".", "_">>)
             /\ tree0[e.path].kind # "none")
              => /\ tree[e.path].mode = e.desired_mode
                 /\ tree[e.path].uid = e.desired_user
                 /\ tree[e.path].gid = e.desired_group

\* root is about to read the entry of a path that exists and is no sidecar
PrivilegedExisting == AtEntry /\ euid = 0 /\ ~EntryIsSidecar /\ ~EntryAbsent

\* C18 as stated: a completed sync as root leaves every existing entry path with the
\* declared bits, owner and group, and counts a wrong owner and a wrong group on one
\* path as one change each.
C18_EachCounted ==
  /\ []DeclaredAtEnd
  /\ [][PrivilegedExisting
          => changes_made' = changes_made
                              + B(tree[EntryPath].mode # Entry.desired_mode)
                              + B(tree[EntryPath].uid # Entry.desired_user)
                              + B(tree[EntryPath].gid # Entry.desired_group)]_vars

\* C18, amended: a completed sync as root leaves every existing entry path with the
\* declared bits, owner and group, and counts one change for the ownership of a path
\* whether its owner, its group or both were wrong.
C18_OwnershipCountedOnce ==
  /\ []DeclaredAtEnd
  /\ [][PrivilegedExisting
          => changes_made' = changes_made
                              + B(tree[EntryPath].mode # Entry.desired_mode)
                              + B(\/ tree[EntryPath].uid # Entry.desired_user
                                  \/ tree[EntryPath].gid # Entry.desired_group)]_vars

C18_Witness ==
  /\ mode = "sync" /\ euid = 0 /\ pc = "exited" /\ exit_status = 0 /\ result = IntV(0)
  /\ changes_made = 1 /\ OnePerPath /\ pos = Len(bom.lines)
  /\ \E i \in 1..Len(log) :
       /\ log[i].op = "chown"
       /\ tree0[rel(log[i].path)].uid # log[i].arg[1]
       /\ tree0[rel(log[i].path)].gid # log[i].arg[2]
       /\ tree[rel(log[i].path)].uid = log[i].arg[1]
       /\ tree[rel(log[i].path)].gid = log[i].arg[2]

\* the loop of lines 376-440 over the first k lines from tree tr, stopping where it ends:
\* the tree, what was done and printed, and how the last line read came out
RECURSIVE SyncRun(_, _, _)
SyncRun(lines, k, tr) ==
  IF k = 0 THEN [tree |-> tr, events |-> <<>>, outcome |-> "continue"]
  ELSE LET before == SyncRun(lines, k - 1, tr)
           eff == read_line(lines[k], before.tree, k)
       IN IF before.outcome # "continue" THEN before
          ELSE [tree |-> eff.tree, events |-> before.events \o eff.events,
                outcome |-> eff.outcome]

\* the mode fixes and directory creations among some events
Fixes(events) == SelectSeq(events, LAMBDA ev : ev.op \in {"chmod", "mkdir"})

\* C19: without root no existing path changes owner or group and no chown is made; and
\* a sync that returns made the mode fixes and directory creations, left the tree and
\* returned the result that reading Bom.txt gives whatever the ownership key says: with
\* 'preserve' or 'preserve-other' the only difference is the warning printed first.
C19_UnprivilegedOwnership ==
  /\ [][(mode = "sync" /\ euid # 0)
          => \A p \in Nodes :
               tree[p].kind # "none"
                 => tree'[p].uid = tree[p].uid /\ tree'[p].gid = tree[p].gid]_vars
  /\ []((mode = "sync" /\ euid # 0) => ~InLog("chown"))
  /\ []((mode = "sync" /\ euid # 0 /\ bom.exists /\ pc = "returned")
          => LET ran == SyncRun(bom.lines, Len(bom.lines), tree0)
                 warned == sync_build_info.info.ownership # StrV("recommended")
             IN /\ Fixes(log) = Fixes(ran.events)
                /\ tree = ran.tree
                /\ result = IntV(IF ran.outcome = "continue" THEN 0 ELSE -1)
                /\ warned <=> InLog("warn_sudo")
                /\ warned => log[1].op = "warn_sudo"
                /\ SelectSeq(log, LAMBDA ev : ev.op # "warn_sudo")
                     = ran.events \o (IF Len(log) > 0 /\ log[Len(log)].op
                                           \in {"sync_successful", "no_changes_needed"}
                                      THEN <<log[Len(log)]>> ELSE <<>>))

C19_Witness ==
  /\ mode = "sync" /\ euid # 0 /\ pc = "returned" /\ result = IntV(0)
  /\ sync_build_info.info.ownership = StrV("preserve-other")
  /\ log[1].op = "warn_sudo"
  /\ \E i, j \in 1..Len(log) : log[i].op = "chmod" /\ log[j].op = "mkdir"

\* the loop is about to read a line that is not blank and does not decode
AtMalformed ==
  /\ mode = "sync"
  /\ pc = "loop"
  /\ pos < Len(bom.lines)
  /\ bom.lines[pos + 1] # <<"\n">>
  /\ decode(bom.lines[pos + 1]).kind # "ok"

\* C20: a line that is not blank and does not decode ends the sync: an error is
\* printed, -1 is returned, the tree is left alone and no later line is read; a line
\* that is a single newline is passed over without a message.
C20_MalformedAborts ==
  /\ [][AtMalformed
          => /\ pc' = "returned"
             /\ result' = IntV(-1)
             /\ Len(log') = Len(log) + 1 /\ log'[Len(log')].op = "error_exc"
             /\ tree' = tree
             /\ pos' = pos + 1]_vars
  /\ [][(mode = "sync" /\ pc = "loop" /\ pos < Len(bom.lines)
           /\ bom.lines[pos + 1] = <<"\n">>)
          => pc' = "loop" /\ log' = log /\ tree' = tree /\ pos' = pos + 1]_vars
  /\ []((mode = "sync" /\ pc \in {"returned", "exited", "crashed"} /\ pos > 0
           /\ bom.lines[pos] # <<"\n">> /\ decode(bom.lines[pos]).kind # "ok")
          => pc # "crashed" /\ result = IntV(-1) /\ exit_status \in {-1, 255})

-----------------------------------------------------------------------------
(* Claims about the resolved record                                        *)

\* the only build-info file of the project
OnlyFile == files[CHOOSE ext \in DOMAIN files : TRUE]

\* the value a key has before the name is templated: the file's, else the default
Layered(key) ==
  IF key \in DOMAIN OnlyFile.data THEN OnlyFile.data[key] ELSE default_build_info[key]

\* C21: get_build_info succeeds for a valid build-info file whatever keys it has; each
\* key it has takes the file's value and each other key the default; and the resolved
\* name is the file's or the default name with ${version} replaced by the resolved
\* version, the default "1.0" when the file has none.
C21_DefaultsAndTemplating ==
  (/\ mode = "info" /\ info_result # NoResult
   /\ ~options.json /\ ~options.yaml
   /\ Cardinality(DOMAIN files) = 1
   /\ OnlyFile.valid)
    => /\ info_result.kind = "ok"
       /\ \A key \in (DOMAIN default_build_info \cup DOMAIN OnlyFile.data) \ {"name"} :
            key \in supported_keys => info_result.info[key] = Layered(key)
       /\ info_result.info.name
            = Replace(Layered("name"), VERSION_PLACEHOLDER, PyStr(Layered("version")))

\* C22: a sync of a project with no build-info file, or with more than one, changes
\* nothing in the payload tree and does not return 0: the configuration error ends it.
C22_SyncConfigError ==
  (mode = "sync" /\ pc # "sync" /\ get_build_info.kind = "MunkiPkgError")
    => /\ tree = tree0
       /\ ~Mutated(log)
       /\ pc \in {"returned", "exited"} => result = IntV(-1)

-----------------------------------------------------------------------------
(* Claims about the import                                                 *)

\* the build-info the import wrote
Written == files[written_type].data

\* Bom.txt has a line, not blank, whose third tab-separated field is not 0/0
OtherOwnerListed ==
  \E i \in 1..Len(bom.lines) :
    LET parts == Split(RStrip(bom.lines[i], "\n"), "\t")
    IN bom.lines[i] # <<"\n">> /\ Len(parts) >= 3 /\ parts[3] # <<"0", "/", "0">>

\* C23: the build-info an import wrote has ownership 'preserve' when Bom.txt lists an
\* owner/group other than 0/0 and no ownership key when it does not, for root and for
\* any other user; the warning is printed when it does and the user is not root.
C23_ImportOwnership ==
  (mode = "import" /\ written_type \in DOMAIN files)
    => /\ "ownership" \in DOMAIN Written <=> OtherOwnerListed
       /\ "ownership" \in DOMAIN Written => Written.ownership = StrV("preserve")
       /\ InLog("warn_ownership") <=> (OtherOwnerListed /\ euid # 0)

C23_Witness ==
  /\ mode = "import" /\ euid = 0 /\ pc = "exited"
  /\ written_type \in DOMAIN files
  /\ "ownership" \in DOMAIN Written
  /\ Written.ownership = StrV("preserve")
  /\ OtherOwnerListed /\ ~InLog("warn_ownership")
  /\ bom.lines[1] = BomLine(P_d, M_dir755, UG_root)

-----------------------------------------------------------------------------
(* Claims about the order of the build                                     *)

\* the stages of build() in the order of lines 888-938, by the tool each one runs
StageOrder ==
  <<"pkgbuild_analyze", "write_pkginfo", "pkgbuild", "pkgutil_bom", "lsbom",
    "productbuild", "altool_upload", "altool_info", "stapler">>

IsStage(op) == \E k \in 1..Len(StageOrder) : StageOrder[k] = op

Rank(op) == CHOOSE k \in 1..Len(StageOrder) : StageOrder[k] = op

\* the positions in the log where build() reported a failed stage
Failures == Positions("error_build") \cup Positions("error_notarization")

-----------------------------------------------------------------------------
(* Claims about the classification of a missing path                        *)

\* the step ended the sync with the missing-file error and left the tree alone
MissingFileAbort ==
  /\ tree' = tree
  /\ log' = Append(log, Event("error_missing", EntryPayloadPath, <<>>, pos + 1))
  /\ pc' = "returned"
  /\ result' = IntV(-1)

C26_ImportIgnoresSync ==
  /\ [][(mode = "import" /\ pc = "import_synced")
          => /\ result \in {IntV(0), IntV(-1)}
             /\ pc' = "returned"
             /\ result' = IntV(0)
             /\ log' = log \o <<Call("gitignore"), Call("created")>>
             /\ tree' = tree /\ files' = files]_vars
  /\ []((mode = "import" /\ pc = "exited"
           /\ (InLog("error_missing") \/ InLog("error_exc") \/ InLog("error_nobom")
                 \/ InLog("sync_successful") \/ InLog("no_changes_needed")))
          => InLog("created") /\ exit_status = 0)

C26_Witness ==
  /\ mode = "import" /\ pc = "exited" /\ exit_status = 0
  /\ InLog("error_missing") /\ InLog("gitignore") /\ InLog("created")
  /\ written_type \in DOMAIN files

============================================================================
